---- MODULE Spec2Model ----
(***************************************************************************)
(* Model of lunchsync-sg: the parser registry (parsers/base.py), the       *)
(* format detectors of the bank parsers (parsers/*.py), the file reader    *)
(* (utils/parsing.py) and the normalizer (normalizer.py).                  *)
(*                                                                         *)
(* File contents are abstracted to (a) the set of detection substrings     *)
(* they contain and (b) the sequence of outcomes the selected parser's row *)
(* loop has on their data rows.                                            *)
(***************************************************************************)
EXTENDS Integers, Sequences, FiniteSets, TLC

VARIABLES
    _parsers,           \* ParserRegistry._parsers (class-level list)
    reg_op,             \* last registry operation
    content,            \* the content string passed to get_parser
    selected,           \* return value of the last get_parser call
    tried,              \* variants whose can_parse it called, in call order
    registered,         \* the argument of the register call just made
    deduplicate,        \* BankNormalizer.deduplicate
    sort_descending,    \* BankNormalizer.sort_descending
    _errors,            \* BankNormalizer._errors
    _pending_skipped,   \* BankNormalizer._pending_skipped
    op,                 \* the normalizer method just called ("idle": none)
    files,              \* its argument (list of paths)
    outcome,            \* "returned" or "raised"
    all_transactions,   \* process_files local, before deduplication
    unique,             \* process_files local, after deduplication, before sorting
    result,             \* return value
    entry,              \* the accumulators when the last call was entered
    handled,            \* number of files handed to the normalizer so far
    identifier,         \* the string passed to matches / get_account_name
    mappings,           \* the configured AccountMapping list
    name_op,            \* last account-naming operation
    matched,            \* return value of AccountMapping.matches
    name,               \* return value of get_account_name
    consulted,          \* mappings whose matches get_account_name called
    instance,           \* a BankParser instance (variant, _account_name, _config)
    document,           \* the content passed to its parse
    parse_op,           \* "idle", or "parse" once parse has returned
    transactions,       \* return value of parse
    pending_skipped,    \* the instance's pending_skipped attribute (-1: not set)
    raw_desc,           \* the words of a string passed to clean_description
    cleaned,            \* its return values, each call cleaning the one before
    amount_str,         \* the cell text passed to parse_amount
    amounts,            \* its return value, once it has returned
    upload_op,          \* "idle", or how upload_transactions ended
    upload_input,       \* its arguments: transactions, account_mapping
    payloads,           \* upload_transactions local: the payloads built
    posted,             \* the bodies of the POST requests made, in order
    responses,          \* what each request returned or raised
    upload_result       \* the UploadResult returned

regvars == <<_parsers, reg_op, content, selected, tried, registered>>
normvars == <<deduplicate, sort_descending, _errors, _pending_skipped, op,
              files, outcome, all_transactions, unique, result, entry, handled>>
namevars == <<identifier, mappings, name_op, matched, name, consulted>>
vars == <<_parsers, reg_op, content, selected, tried, registered,
          deduplicate, sort_descending, _errors, _pending_skipped, op,
          files, outcome, all_transactions, unique, result, entry, handled,
          identifier, mappings, name_op, matched, name, consulted,
          instance, document, parse_op, transactions, pending_skipped,
          raw_desc, cleaned, amount_str, amounts,
          upload_op, upload_input, payloads, posted, responses, upload_result>>
parsevars == <<instance, document, parse_op, transactions, pending_skipped>>
utilvars == <<raw_desc, cleaned, amount_str, amounts>>
uploadvars == <<upload_op, upload_input, payloads, posted, responses, upload_result>>

-----------------------------------------------------------------------------
(* Bounds *)

\* number of files handed to the normalizer in one behaviour, over all its
\* process_file and process_files calls
MaxFiles == 3
\* number of text fragments a content string is assembled from
MaxParts == 2
\* number of variants registered again after ParserRegistry.clear()
MaxRegistered == 2
\* longest identifier string passed to matches / get_account_name
MaxIdLen == 5
\* longest configured mapping list
MaxMappings == 2
\* number of data rows of a document passed to parse
MaxRows == 2
\* number of words of a string passed to clean_description
MaxWords == 3
\* number of full batches of the longest list passed to upload_transactions
MaxBatches == 2

None == "None"

Min(a, b) == IF a < b THEN a ELSE b

-----------------------------------------------------------------------------
(* Parser variants and their detectors *)

Variants ==
    {"CitiParser", "DBSSavingsParser", "DBSCreditParser", "HSBCRevolutionParser",
     "OCBCCreditParser", "OCBC360Parser", "UOBCreditParser"}

\* Order in which importing lunchsync_sg.parsers runs the @register decorators.
ImportOrder ==
    <<"CitiParser", "DBSSavingsParser", "DBSCreditParser", "HSBCRevolutionParser",
      "OCBCCreditParser", "OCBC360Parser", "UOBCreditParser">>

\* The substrings and structural facts the detectors test.  The marker
\* "**** **** **** 3363" stands for the bullet-masked card number literal of
\* HSBCRevolutionParser.can_parse.  An upper-case
\* marker stands for a match in content.upper().  "CitiFirstRow" stands for:
\* the first line is a 5-column CSV row whose first field starts with
\* DD/MM/YYYY and whose last field holds a quoted 16-digit card number.
Markers ==
    {"DBS Savings Account", "Transaction Code",
     "DBS MasterCard", "Card Transaction Details", "Transaction Posting Date",
     "OCBC Rewards Card", "OCBC Credit Card", "Transaction date,Description,Withdrawals",
     "360 Account", "Transaction date,Value date,Description",
     "UNITED OVERSEAS BANK", "LADY'S SOLITAIRE", "PREFERRED PLATINUM", "TRANSACTION DATE",
     "**** **** **** 3363", "PYMT @ AXS", "3363",
     "CitiFirstRow"}

\* Substring relations between the markers: a string containing the left one
\* contains the right one.
Implied(m) ==
    CASE m = "Transaction date,Description,Withdrawals" -> {"TRANSACTION DATE"}
      [] m = "Transaction date,Value date,Description"  -> {"TRANSACTION DATE"}
      [] m = "**** **** **** 3363"                      -> {"3363"}
      [] OTHER                                          -> {}

MarkersOf(S) == S \cup UNION {Implied(m) : m \in S}

DBSSavingsParser_can_parse(c) ==
    "DBS Savings Account" \in c /\ "Transaction Code" \in c

DBSCreditParser_can_parse(c) ==
    ("DBS MasterCard" \in c \/ "Card Transaction Details" \in c)
    /\ "Transaction Posting Date" \in c

OCBCCreditParser_can_parse(c) ==
    ("OCBC Rewards Card" \in c \/ "OCBC Credit Card" \in c)
    /\ "Transaction date,Description,Withdrawals" \in c

OCBC360Parser_can_parse(c) ==
    "360 Account" \in c /\ "Transaction date,Value date,Description" \in c

UOBCreditParser_can_parse(c) ==
    "UNITED OVERSEAS BANK" \in c
    /\ ("LADY'S SOLITAIRE" \in c \/ "PREFERRED PLATINUM" \in c)
    /\ "TRANSACTION DATE" \in c

HSBCRevolutionParser_can_parse(c) ==
    "**** **** **** 3363" \in c
    \/ ("PYMT @ AXS" \in c /\ "3363" \in c)

CitiParser_can_parse(c) == "CitiFirstRow" \in c

\* parser_class.can_parse(content, filepath)
can_parse(v, c) ==
    CASE v = "DBSSavingsParser" -> DBSSavingsParser_can_parse(c)
      [] v = "DBSCreditParser" -> DBSCreditParser_can_parse(c)
      [] v = "OCBCCreditParser" -> OCBCCreditParser_can_parse(c)
      [] v = "OCBC360Parser" -> OCBC360Parser_can_parse(c)
      [] v = "UOBCreditParser" -> UOBCreditParser_can_parse(c)
      [] v = "HSBCRevolutionParser" -> HSBCRevolutionParser_can_parse(c)
      [] v = "CitiParser" -> CitiParser_can_parse(c)
      [] OTHER -> FALSE

-----------------------------------------------------------------------------
(* ParserRegistry *)

\* The for loop of get_parser from position i: the selected variant and the
\* variants whose can_parse was called, in call order.
\* The scan went past variant v; rest is the scan of the variants after it.
ScanPast(v, rest) == [parser |-> rest.parser, tried |-> <<v>> \o rest.tried]

RECURSIVE ScanFrom(_, _, _)
ScanFrom(reg, i, c) ==
    IF i > Len(reg) THEN [parser |-> None, tried |-> <<>>]
    ELSE IF can_parse(reg[i], c)
         THEN [parser |-> reg[i], tried |-> <<reg[i]>>]
         ELSE ScanPast(reg[i], ScanFrom(reg, i + 1, c))

ScanLastAt(v, accepts, rest) ==
    [parser |-> IF rest.parser # None THEN rest.parser
                ELSE IF accepts THEN v ELSE None,
     tried |-> <<v>> \o rest.tried]

\* A scan that keeps going after a match and returns the last accepting variant.
RECURSIVE ScanLast(_, _, _)
ScanLast(reg, i, c) ==
    IF i > Len(reg) THEN [parser |-> None, tried |-> <<>>]
    ELSE ScanLastAt(reg[i], can_parse(reg[i], c), ScanLast(reg, i + 1, c))

get_parser_last(reg, c) == ScanLast(reg, 1, c)

get_parser(reg, c) == ScanFrom(reg, 1, c)

InRegistry(reg, v) == \E i \in 1..Len(reg) : reg[i] = v

\* A register that appends without looking.
register_always(reg, v) == Append(reg, v)

register(reg, v) == IF ~InRegistry(reg, v) THEN Append(reg, v) ELSE reg

\* Text fragments a content string is assembled from: a single marker, or
\* the header text of one bank export.
Parts ==
    {{m} : m \in Markers} \cup
    {{"DBS Savings Account", "Transaction Code"},
     {"DBS MasterCard", "Transaction Posting Date"},
     {"Card Transaction Details", "Transaction Posting Date"},
     {"OCBC Credit Card", "Transaction date,Description,Withdrawals"},
     {"360 Account", "Transaction date,Value date,Description"},
     {"UNITED OVERSEAS BANK", "PREFERRED PLATINUM", "TRANSACTION DATE"},
     {"PYMT @ AXS", "3363"}}

\* The contents assembled from at most k fragments.
RECURSIVE ContentsOf(_)
ContentsOf(k) ==
    IF k = 0 THEN {{}}
    ELSE LET prev == ContentsOf(k - 1)
         IN  prev \cup {MarkersOf(c \cup p) : c \in prev, p \in Parts}

Contents == ContentsOf(MaxParts)

InitRegistry ==
    /\ _parsers = ImportOrder
    /\ reg_op = "import"
    /\ content = {}
    /\ selected = None
    /\ tried = <<>>
    /\ registered = None

Register(v) ==
    /\ Len(_parsers) < MaxRegistered \/ InRegistry(_parsers, v)
    /\ _parsers' = register(_parsers, v)
    /\ reg_op' = "register"
    /\ registered' = v
    /\ selected' = None
    /\ tried' = <<>>
    /\ UNCHANGED content

Clear ==
    /\ _parsers' = <<>>
    /\ reg_op' = "clear"
    /\ registered' = None
    /\ selected' = None
    /\ tried' = <<>>
    /\ UNCHANGED content

GetParser ==
    /\ LET r == get_parser(_parsers, content)
       IN  /\ selected' = r.parser
           /\ tried' = r.tried
    /\ reg_op' = "get_parser"
    /\ registered' = None
    /\ UNCHANGED <<_parsers, content>>

-----------------------------------------------------------------------------
(* Transactions *)

\* Number of leading description characters in the deduplication key.
KeyPrefixLen == 30

\* A Decimal is a coefficient and an exponent (exp <= 0 here): 50 with exp -1
\* is 5.0 and 500 with exp -2 is 5.00.
Dec(coef, exp) == [coef |-> coef, exp |-> exp]

Abs(n) == IF n < 0 THEN 0 - n ELSE n

RECURSIVE Pow10(_)
Pow10(k) == IF k = 0 THEN 1 ELSE 10 * Pow10(k - 1)

RECURSIVE Digits(_)
Digits(n) == IF n < 10 THEN <<n>> ELSE Digits(n \div 10) \o <<n % 10>>

\* The k low-order decimal digits of n, zero padded.
RECURSIVE FracDigits(_, _)
FracDigits(n, k) == IF k = 0 THEN <<>> ELSE FracDigits(n \div 10, k - 1) \o <<n % 10>>

\* str(Decimal): sign, integer digits, and after a point one digit per unit
\* of negative exponent.
DecimalStrOf(negative, m, k) ==
    (IF negative THEN <<"-">> ELSE <<>>)
    \o Digits(m \div Pow10(k))
    \o (IF k > 0 THEN <<".">> \o FracDigits(m, k) ELSE <<>>)

DecimalStr(a) == DecimalStrOf(a.coef < 0, Abs(a.coef), 0 - a.exp)

Tx(d, desc, amt, acct, raw) ==
    [date |-> d, description |-> desc, amount |-> amt, account |-> acct, raw_data |-> raw]

\* description[:n]
Prefix(desc, n) == SubSeq(desc, 1, Min(n, Len(desc)))

\* A key built from the whole description.
DedupKeyFull(tx) == <<tx.date, tx.description, DecimalStr(tx.amount), tx.account>>

DedupKey(tx) ==
    <<tx.date, Prefix(tx.description, KeyPrefixLen), DecimalStr(tx.amount), tx.account>>

\* The loop of _deduplicate from position i with the keys seen so far.
RECURSIVE DedupFrom(_, _, _)

\* One iteration of the loop: key is the key of txs[i].
DedupStep(txs, i, seen, key) ==
    IF key \notin seen
    THEN <<txs[i]>> \o DedupFrom(txs, i + 1, seen \cup {key})
    ELSE DedupFrom(txs, i + 1, seen)

DedupFrom(txs, i, seen) ==
    IF i > Len(txs) THEN <<>> ELSE DedupStep(txs, i, seen, DedupKey(txs[i]))

_deduplicate(txs) == DedupFrom(txs, 1, {})

\* Insert t into a list that is non-increasing by date, after every element
\* whose date is not smaller (list.sort is stable, also with reverse=True).
RECURSIVE InsertDesc(_, _)
InsertDesc(sorted, t) ==
    IF sorted = <<>> THEN <<t>>
    ELSE IF Head(sorted).date >= t.date
         THEN <<Head(sorted)>> \o InsertDesc(Tail(sorted), t)
         ELSE <<t>> \o sorted

RECURSIVE SortFrom(_, _, _)
SortFrom(txs, i, acc) ==
    IF i > Len(txs) THEN acc ELSE SortFrom(txs, i + 1, InsertDesc(acc, txs[i]))

\* As InsertDesc, but before the elements of the same date.
RECURSIVE InsertDescBeforeTies(_, _)
InsertDescBeforeTies(sorted, t) ==
    IF sorted = <<>> THEN <<t>>
    ELSE IF Head(sorted).date > t.date
         THEN <<Head(sorted)>> \o InsertDescBeforeTies(Tail(sorted), t)
         ELSE <<t>> \o sorted

RECURSIVE SortFromUnstable(_, _, _)
SortFromUnstable(txs, i, acc) ==
    IF i > Len(txs) THEN acc
    ELSE SortFromUnstable(txs, i + 1, InsertDescBeforeTies(acc, txs[i]))

\* An ascending sort that is then reversed: ties come out in reverse order.
sort_by_date_reversed(txs) == SortFromUnstable(txs, 1, <<>>)

\* all_transactions.sort(key=lambda t: t.date, reverse=True)
sort_by_date(txs) == SortFrom(txs, 1, <<>>)

-----------------------------------------------------------------------------
(* The files on disk *)

Pfx30 == [i \in 1..30 |-> 1]
\* two descriptions of 31 characters that agree on the first 30
DescLongA == Pfx30 \o <<2>>
DescLongB == Pfx30 \o <<3>>
\* a description that differs from them in its 30th character only
DescAlt == [Pfx30 EXCEPT ![30] = 4] \o <<2>>
DescShort == <<5, 6>>

NoTx == [date |-> 0, description |-> <<>>, amount |-> Dec(0, 0), account |-> "", raw_data |-> ""]

\* Outcomes of one iteration of a parser's row loop.
TxRow(t) == [kind |-> "tx", tx |-> t, error |-> ""]
\* a row the variant recognises as pending; t is what the row would parse to
PendingRow(t) == [kind |-> "pending", tx |-> t, error |-> ""]
MalformedRow == [kind |-> "malformed", tx |-> NoTx, error |-> ""]
\* a row whose amount cell makes the row loop raise e ("sNaN": Decimal
\* accepts it and its negation raises InvalidOperation)
RaisingRow(e) == [kind |-> "raise", tx |-> NoTx, error |-> e]

File(ex, dir, xsuf, xmagic, wbok, utf8, marks, rs) ==
    [exists |-> ex, isDir |-> dir, xlsSuffix |-> xsuf, xlsMagic |-> xmagic,
     workbookOk |-> wbok, utf8 |-> utf8, markers |-> marks, rows |-> rs]

FileSystem ==
    "missing.csv" :> File(FALSE, FALSE, FALSE, FALSE, FALSE, TRUE, {}, <<>>)
    @@ "statements" :> File(TRUE, TRUE, FALSE, FALSE, FALSE, TRUE, {}, <<>>)
    @@ "corrupt.xls" :> File(TRUE, FALSE, TRUE, TRUE, FALSE, TRUE, {}, <<>>)
    @@ "notes.txt" :> File(TRUE, FALSE, FALSE, FALSE, FALSE, FALSE, {"Transaction Code"}, <<>>)
    @@ "ocbc_jan.csv" :>
            File(TRUE, FALSE, FALSE, FALSE, FALSE, TRUE,
                 MarkersOf({"OCBC Rewards Card", "Transaction date,Description,Withdrawals"}),
                 << TxRow(Tx(3, DescLongA, Dec(-50, -1), "OCBC Rewards", "jan:1")),
                    MalformedRow,
                    TxRow(Tx(1, DescShort, Dec(-120, -1), "OCBC Rewards", "jan:3")),
                    TxRow(Tx(3, DescLongB, Dec(-50, -1), "OCBC Rewards", "jan:4")) >>)
    @@ "ocbc_feb.csv" :>
            File(TRUE, FALSE, FALSE, FALSE, FALSE, TRUE,
                 MarkersOf({"OCBC Rewards Card", "Transaction date,Description,Withdrawals"}),
                 << TxRow(Tx(3, DescLongA, Dec(-50, -1), "OCBC Rewards", "feb:1")),
                    TxRow(Tx(3, DescAlt, Dec(-50, -1), "OCBC Rewards", "feb:2")),
                    TxRow(Tx(3, DescLongA, Dec(-500, -2), "OCBC Rewards", "feb:3")),
                    TxRow(Tx(5, DescShort, Dec(200, -1), "OCBC Rewards", "feb:4")) >>)
    @@ "dbs_card.csv" :>
            File(TRUE, FALSE, FALSE, FALSE, FALSE, TRUE,
                 {"DBS MasterCard", "Transaction Posting Date"},
                 << TxRow(Tx(4, DescShort, Dec(-75, -1), "Unknown (0002)", "dbs:1")),
                    PendingRow(Tx(5, DescShort, Dec(-20, -1), "Unknown (0002)", "dbs:2")),
                    RaisingRow("InvalidOperation") >>)
    @@ "uob.xls" :>
            File(TRUE, FALSE, TRUE, TRUE, TRUE, TRUE,
                 {"UNITED OVERSEAS BANK", "PREFERRED PLATINUM", "TRANSACTION DATE"},
                 << PendingRow(Tx(6, DescShort, Dec(-30, -1), "UOB Platinum VISA", "uob:1")),
                    TxRow(Tx(3, DescLongA, Dec(-50, -1), "UOB Platinum VISA", "uob:2")),
                    PendingRow(Tx(6, DescLongB, Dec(-40, -1), "UOB Platinum VISA", "uob:3")),
                    TxRow(Tx(5, DescShort, Dec(-10, 0), "UOB Platinum VISA", "uob:4")) >>)

Paths == DOMAIN FileSystem

-----------------------------------------------------------------------------
(* utils/parsing.py: read_file *)

Ok(v) == [tag |-> "ok", value |-> v]
ValueError(msg) == [tag |-> "ValueError", value |-> msg]
\* an OSError subclass raised by open(): IsADirectoryError, PermissionError
OSError(msg) == [tag |-> "OSError", value |-> msg]

FileContent(f) == [markers |-> f.markers, rows |-> f.rows]

Encodings == <<"utf-8-sig", "utf-8", "latin-1", "cp1252">>

\* latin-1 maps every byte to a character, the UTF-8 codecs only decode UTF-8.
Decodes(enc, f) == enc = "latin-1" \/ f.utf8

RECURSIVE DecodeFrom(_, _, _)
DecodeFrom(path, f, i) ==
    IF i > Len(Encodings) THEN ValueError(<<"Could not decode file", path>>)
    ELSE IF Decodes(Encodings[i], f) THEN Ok(FileContent(f))
         ELSE DecodeFrom(path, f, i + 1)

\* f is the file at path.
_read_text(path, f) ==
    IF ~f.exists THEN ValueError(<<"File not found", path>>)
    ELSE IF f.isDir THEN OSError(<<"IsADirectoryError", path>>)
    ELSE DecodeFrom(path, f, 1)

_read_excel(path, f) ==
    IF f.exists /\ ~f.isDir /\ f.workbookOk THEN Ok(FileContent(f))
    ELSE ValueError(<<"Could not read Excel file", path>>)

\* The magic bytes are sniffed when the file opens; the extension also counts.
is_xls(f) == (f.exists /\ ~f.isDir /\ f.xlsMagic) \/ f.xlsSuffix

read_file_at(path, f) ==
    IF is_xls(f) THEN _read_excel(path, f) ELSE _read_text(path, f)

read_file(path) == read_file_at(path, FileSystem[path])

-----------------------------------------------------------------------------
(* Bank parsers: the row loop of parse *)

\* The variants whose parse sets self.pending_skipped.
PendingVariants == {"DBSCreditParser", "UOBCreditParser"}

\* The row loop from row i, with the transactions appended and the pending
\* rows counted so far.  A raising row ends the loop with the exception.
\* Row outcomes are relative to the variant that parses the file: only the
\* variants of PendingVariants have pending rows.
RECURSIVE ParseFrom(_, _, _, _, _)
ParseFrom(v, rows, i, txs, pend) ==
    IF i > Len(rows)
    THEN [raised |-> FALSE, error |-> "", transactions |-> txs,
          has_pending |-> v \in PendingVariants, pending_skipped |-> pend]
    ELSE CASE rows[i].kind = "tx" ->
                ParseFrom(v, rows, i + 1, Append(txs, rows[i].tx), pend)
           [] rows[i].kind = "pending" /\ v \in PendingVariants ->
                ParseFrom(v, rows, i + 1, txs, pend + 1)
           [] rows[i].kind = "raise" ->
                [raised |-> TRUE, error |-> rows[i].error, transactions |-> txs,
                 has_pending |-> v \in PendingVariants, pending_skipped |-> pend]
           [] OTHER ->
                ParseFrom(v, rows, i + 1, txs, pend)

parse(v, c) == ParseFrom(v, c.rows, 1, <<>>, 0)

-----------------------------------------------------------------------------
(* BankNormalizer *)

Acc(errs, pend) == [errors |-> errs, pending |-> pend]

PFResult(r, acc, txs) == [raised |-> r, errors |-> acc.errors, pending |-> acc.pending, txs |-> txs]

\* A handler that returns what parse had extracted when it raised.
after_parse_partial(path, acc, pr) ==
    IF pr.raised
    THEN PFResult(FALSE, Acc(Append(acc.errors, <<path, <<"Parse error", pr.error>>>>), acc.pending),
                  pr.transactions)
    ELSE PFResult(FALSE,
                  Acc(acc.errors,
                      IF pr.has_pending THEN acc.pending + pr.pending_skipped ELSE acc.pending),
                  pr.transactions)

\* A handler that never adds the parser's pending count.
after_parse_no_pending(path, acc, pr) ==
    IF pr.raised
    THEN PFResult(FALSE, Acc(Append(acc.errors, <<path, <<"Parse error", pr.error>>>>), acc.pending),
                  <<>>)
    ELSE PFResult(FALSE, acc, pr.transactions)

\* The try block around parser.parse in process_file.
after_parse(path, acc, pr) ==
    IF pr.raised
    THEN PFResult(FALSE, Acc(Append(acc.errors, <<path, <<"Parse error", pr.error>>>>), acc.pending),
                  <<>>)
    ELSE PFResult(FALSE,
                  Acc(acc.errors,
                      IF pr.has_pending THEN acc.pending + pr.pending_skipped ELSE acc.pending),
                  pr.transactions)

\* process_file from the parser lookup on: parser is what get_parser returned.
with_parser(acc, path, file_content, parser) ==
    IF parser = None
    THEN PFResult(FALSE,
                  Acc(Append(acc.errors, <<path, "No parser found for this file format">>),
                      acc.pending),
                  <<>>)
    ELSE after_parse(path, acc, parse(parser, file_content))

\* process_file after read_file: rd is what read_file returned or raised.
after_read(reg, acc, path, rd) ==
    CASE rd.tag = "ValueError" ->
            PFResult(FALSE, Acc(Append(acc.errors, <<path, rd.value>>), acc.pending), <<>>)
      [] rd.tag = "OSError" ->
            PFResult(TRUE, acc, <<>>)
      [] OTHER ->
            with_parser(acc, path, rd.value, get_parser(reg, rd.value.markers).parser)

\* A process_file that starts from empty accumulators.
process_file_resetting(reg, acc, path) ==
    after_read(reg, Acc(<<>>, 0), path, read_file(path))

\* process_file: the accumulators after the call, the returned list, and
\* whether an exception escaped.
process_file(reg, acc, path) == after_read(reg, acc, path, read_file(path))

keep_accumulators(acc) == acc

\* self._errors = []; self._pending_skipped = 0
reset_accumulators(acc) == Acc(<<>>, 0)

always_deduplicate(flag, txs) == _deduplicate(txs)

\* if self.deduplicate: all_transactions = self._deduplicate(all_transactions)
apply_deduplicate(flag, txs) == IF flag THEN _deduplicate(txs) ELSE txs

always_sort(flag, txs) == sort_by_date(txs)

\* if self.sort_descending: all_transactions.sort(...)
apply_sort(flag, txs) == IF flag THEN sort_by_date(txs) ELSE txs

\* The for loop of process_files from position i.
RECURSIVE FilesFrom(_, _, _, _, _)

\* One iteration: r is what process_file(paths[i]) did.
FilesStep(reg, paths, i, all, r) ==
    IF r.raised THEN PFResult(TRUE, Acc(r.errors, r.pending), all)
    ELSE FilesFrom(reg, paths, i + 1, Acc(r.errors, r.pending), all \o r.txs)

FilesFrom(reg, paths, i, acc, all) ==
    IF i > Len(paths) THEN PFResult(FALSE, acc, all)
    ELSE FilesStep(reg, paths, i, all, process_file(reg, acc, paths[i]))

\* The end of process_files: r is the outcome of the loop, u the list after
\* the deduplication step.
sorted_return(sort, r, u) ==
    [raised |-> FALSE, errors |-> r.errors, pending |-> r.pending,
     all |-> r.txs, unique |-> u, txs |-> apply_sort(sort, u)]

after_loop(dedup, sort, r) ==
    IF r.raised
    THEN [raised |-> TRUE, errors |-> r.errors, pending |-> r.pending,
          all |-> r.txs, unique |-> <<>>, txs |-> <<>>]
    ELSE sorted_return(sort, r, apply_deduplicate(dedup, r.txs))

process_files(reg, dedup, sort, acc, paths) ==
    after_loop(dedup, sort, FilesFrom(reg, paths, 1, reset_accumulators(acc), <<>>))

PathLists(n) == UNION {[1..k -> Paths] : k \in 0..n}

InitNormalizer ==
    /\ deduplicate \in BOOLEAN
    /\ sort_descending \in BOOLEAN
    /\ _errors = <<>>
    /\ _pending_skipped = 0
    /\ op = "idle"
    /\ files = <<>>
    /\ outcome = "returned"
    /\ all_transactions = <<>>
    /\ unique = <<>>
    /\ result = <<>>
    /\ entry = Acc(<<>>, 0)
    /\ handled = 0

ProcessFile(path) ==
    /\ op = "idle"
    /\ handled < MaxFiles
    /\ \E r \in {process_file(_parsers, Acc(_errors, _pending_skipped), path)} :
           /\ _errors' = r.errors
           /\ _pending_skipped' = r.pending
           /\ outcome' = IF r.raised THEN "raised" ELSE "returned"
           /\ result' = r.txs
    /\ op' = "process_file"
    /\ files' = <<path>>
    /\ all_transactions' = <<>>
    /\ unique' = <<>>
    /\ entry' = Acc(_errors, _pending_skipped)
    /\ handled' = handled + 1
    /\ UNCHANGED <<deduplicate, sort_descending>>

ProcessFiles(paths) ==
    /\ op = "idle"
    /\ handled + Len(paths) <= MaxFiles
    /\ \E r \in {process_files(_parsers, deduplicate, sort_descending,
                                Acc(_errors, _pending_skipped), paths)} :
           /\ _errors' = r.errors
           /\ _pending_skipped' = r.pending
           /\ outcome' = IF r.raised THEN "raised" ELSE "returned"
           /\ all_transactions' = r.all
           /\ unique' = r.unique
           /\ result' = r.txs
    /\ op' = "process_files"
    /\ files' = paths
    /\ entry' = Acc(_errors, _pending_skipped)
    /\ handled' = handled + Len(paths)
    /\ UNCHANGED <<deduplicate, sort_descending>>

\* The caller has taken the returned list (or caught the exception): what is
\* left of the call is the normalizer's own state.
CallerContinues ==
    /\ op # "idle"
    /\ op' = "idle"
    /\ files' = <<>>
    /\ outcome' = "returned"
    /\ all_transactions' = <<>>
    /\ unique' = <<>>
    /\ result' = <<>>
    /\ entry' = Acc(<<>>, 0)
    /\ UNCHANGED <<deduplicate, sort_descending, _errors, _pending_skipped, handled>>

-----------------------------------------------------------------------------
(* Account names: AccountMapping.matches and get_account_name *)

\* A string is the sequence of its characters.
Chars == {"1", "2", "-", " "}

Max(a, b) == IF a > b THEN a ELSE b

\* s.replace(ch, "")
Remove(s, ch) == SelectSeq(s, LAMBDA x : x # ch)

\* s.replace("-", "")
RemoveHyphens(s) == Remove(s, "-")

\* s.replace("-", "").replace(" ", "")
Clean(s) == Remove(Remove(s, "-"), " ")

\* Number of trailing characters compared by matches and shown by the
\* "Unknown (...)" label.
SuffixLen == 4

\* s[-4:]
Suffix(s) == SubSeq(s, Max(1, Len(s) - SuffixLen + 1), Len(s))

AccountMapping(id, nm) == [identifier |-> id, name |-> nm]

\* matches with a clean-up that forgets the spaces.
matches_hyphens_only(mapping, value) ==
    \/ RemoveHyphens(value) = RemoveHyphens(mapping.identifier)
    \/ /\ Len(RemoveHyphens(value)) >= SuffixLen
       /\ Suffix(RemoveHyphens(value)) = Suffix(RemoveHyphens(mapping.identifier))

matches(mapping, value) ==
    \/ Clean(value) = Clean(mapping.identifier)
    \/ /\ Len(Clean(value)) >= SuffixLen
       /\ Suffix(Clean(value)) = Suffix(Clean(mapping.identifier))

\* f"Unknown ({clean_id[-4:]})"
UnknownLabel(clean_id) == <<"Unknown (">> \o Suffix(clean_id) \o <<")">>

\* A fallback that returns every unmatched identifier as it is.
fallback_name_raw(id) == id

\* The fallback of get_account_name.
fallback_name(id) ==
    IF Len(Clean(id)) >= SuffixLen THEN UnknownLabel(Clean(id)) ELSE id

NameResult(nm, n) == [name |-> nm, consulted |-> n]

\* The loop of get_account_name from mapping i.
RECURSIVE ScanMappings(_, _, _)
ScanMappings(id, maps, i) ==
    IF i > Len(maps) THEN NameResult(fallback_name(id), Len(maps))
    ELSE IF matches(maps[i], id) THEN NameResult(maps[i].name, i)
    ELSE ScanMappings(id, maps, i + 1)

\* A loop that keeps the last matching mapping.
RECURSIVE ScanMappingsLast(_, _, _)
ScanMappingsLast(id, maps, i) ==
    IF i = 0 THEN NameResult(fallback_name(id), Len(maps))
    ELSE IF matches(maps[i], id) THEN NameResult(maps[i].name, Len(maps))
    ELSE ScanMappingsLast(id, maps, i - 1)

get_account_name_last(id, maps) == ScanMappingsLast(id, maps, Len(maps))

\* A fallback that masks every identifier.
get_account_name_masked(id, maps) ==
    IF \E i \in 1..Len(maps) : matches(maps[i], id)
    THEN ScanMappings(id, maps, 1)
    ELSE NameResult(UnknownLabel(Clean(id)), Len(maps))

get_account_name(id, maps) == ScanMappings(id, maps, 1)

\* The strings of at most n characters.
RECURSIVE Strings(_)
Strings(n) ==
    IF n = 0 THEN {<<>>}
    ELSE LET shorter == Strings(n - 1)
         IN  shorter \cup {Append(t, ch) : t \in shorter, ch \in Chars}

\* The configured mappings: two cards that share their last four digits, a
\* short identifier, and an identifier written with separators.
ConfiguredMappings ==
    {AccountMapping(<<"1", "1", "1", "1">>, <<"Card A">>),
     AccountMapping(<<"2", "1", "1", "1", "1">>, <<"Card B">>),
     AccountMapping(<<"1", "2">>, <<"Short">>),
     AccountMapping(<<"2", "2", "-", "1", "2", " ", "1">>, <<"Savings">>)}

MappingLists(n) == UNION {[1..k -> ConfiguredMappings] : k \in 0..n}

\* No account-naming call has been made.
IdleNames ==
    /\ identifier = <<>>
    /\ mappings = <<>>
    /\ name_op = "idle"
    /\ matched = FALSE
    /\ name = <<>>
    /\ consulted = 0

\* mappings[1].matches(identifier)
Matches ==
    /\ name_op = "idle"
    /\ mappings # <<>>
    /\ matched' = matches(mappings[1], identifier)
    /\ name_op' = "matches"
    /\ UNCHANGED <<identifier, mappings, name, consulted>>

\* get_account_name(identifier, mappings)
GetAccountName ==
    /\ name_op = "idle"
    /\ \E r \in {get_account_name(identifier, mappings)} :
           /\ name' = r.name
           /\ consulted' = r.consulted
    /\ name_op' = "get_account_name"
    /\ UNCHANGED <<identifier, mappings, matched>>

-----------------------------------------------------------------------------
(* Rows and cells: parse_date, parse_amount, clean_description *)

\* A cell of a data row is abstracted to what the parsing utilities make of
\* its text: a date in one of the accepted formats (d), an amount literal
\* (mag, written in parentheses and/or with a leading minus sign), or other
\* text (t, its whitespace-separated words).
Cell(k, d, paren, minus, mag, t) ==
    [k |-> k, d |-> d, paren |-> paren, minus |-> minus, mag |-> mag, t |-> t]

Empty == Cell("empty", 0, FALSE, FALSE, Dec(0, 0), <<>>)
DateCell(d) == Cell("date", d, FALSE, FALSE, Dec(0, 0), <<>>)
AmountCell(paren, minus, coef, exp) == Cell("amount", 0, paren, minus, Dec(coef, exp), <<>>)
TextCell(t) == Cell("text", 0, FALSE, FALSE, Dec(0, 0), t)

\* parts[k], with the source's zero-based index
Col(parts, k) == parts[k + 1]

\* parts[-k]
ColFromEnd(parts, k) == parts[Len(parts) - k + 1]

NoDate == 0

\* parse_date: None (NoDate) unless the text is a date in an accepted format
parse_date(cell) == IF cell.k = "date" THEN cell.d ELSE NoDate

Neg(dec) == Dec(0 - dec.coef, dec.exp)

NoAmount == [ok |-> FALSE, value |-> Dec(0, 0)]
SomeAmount(dec) == [ok |-> TRUE, value |-> dec]

\* A parse_amount in which a second negative indicator undoes the first.
parse_amount_cancelling(cell) ==
    IF cell.k # "amount" THEN NoAmount
    ELSE IF cell.paren # cell.minus THEN SomeAmount(Neg(cell.mag))
    ELSE SomeAmount(cell.mag)

\* parse_amount: None for empty or non-numeric text; parentheses or a
\* leading minus sign set is_negative
parse_amount(cell) ==
    IF cell.k # "amount" THEN NoAmount
    ELSE IF cell.paren \/ cell.minus THEN SomeAmount(Neg(cell.mag))
    ELSE SomeAmount(cell.mag)

\* A test that only asks whether the amount parsed.
Truthy_parsed(amount) == amount.ok

\* bool(x) of an Optional[Decimal]: neither None nor zero
Truthy(amount) == amount.ok /\ amount.value.coef # 0

\* Words that clean_description removes wherever they stand: a card number
\* mask and a "Ref No: <digits>" fragment.
RemovedWords == {"XXXX-XXXX-XXXX-1234", "Ref No:123"}
\* Trailing location and currency codes.
TrailingCodes == {"SG", "SGP", "MY", "GB", "US", "AU", "IN", "GBR", "MYR", "USD", "AUD"}

\* The text left by the two re.sub removals: the words kept, and for each
\* whether a removed word stood right before it (its place is a blank).
RECURSIVE Removals(_, _, _)
Removals(words, i, gap) ==
    IF i > Len(words) THEN <<>>
    ELSE IF words[i] \in RemovedWords THEN Removals(words, i + 1, TRUE)
    ELSE <<[w |-> words[i], gap |-> gap]>> \o Removals(words, i + 1, FALSE)

\* re.sub(r"\s+(SG|...)\s*$", "", desc): the last word goes when it is a
\* code with white space before it.
DropTrailingCode(kept) ==
    IF /\ kept # <<>>
       /\ kept[Len(kept)].w \in TrailingCodes
       /\ (Len(kept) > 1 \/ kept[Len(kept)].gap)
    THEN SubSeq(kept, 1, Len(kept) - 1)
    ELSE kept

clean_description(cell) ==
    LET kept == DropTrailingCode(Removals(cell.t, 1, FALSE))
    IN  [i \in 1..Len(kept) |-> kept[i].w]

\* Transaction.__post_init__
Placeholder == <<"(No description)">>

\* A constructor without __post_init__.
Transaction_as_given(d, desc, amt, acct, raw) == Tx(d, desc, amt, acct, raw)

Transaction(d, desc, amt, acct, raw) ==
    Tx(d, IF desc = <<>> THEN Placeholder ELSE desc, amt, acct, raw)

-----------------------------------------------------------------------------
(* BankParser instances and the parse methods of the variants *)

\* A loaded config is its "accounts" list; loaded is FALSE for config=None.
Config(loaded, accounts) == [loaded |-> loaded, accounts |-> accounts]

get_account_mappings(config) ==
    IF ~config.loaded THEN <<>>
    ELSE [i \in 1..Len(config.accounts) |->
            AccountMapping(config.accounts[i].card_number, config.accounts[i].name)]

\* A parser instance; _account_name is <<>> when no override was given.
Parser(v, account_name, config) ==
    [variant |-> v, _account_name |-> account_name, _config |-> config]

BankParser_get_account_name(self, id) ==
    IF self._account_name # <<>> THEN self._account_name
    ELSE get_account_name(id, get_account_mappings(self._config)).name

\* What a row adds: at most one transaction, at most one to pending_skipped.
Skip == [txs |-> <<>>, pending |-> 0]
Pending == [txs |-> <<>>, pending |-> 1]
Emit(tx) == [txs |-> <<tx>>, pending |-> 0]

\* str.lower() and str.upper() on the words a status or posting-date cell holds
Lower(w) ==
    CASE w \in {"PENDING", "Pending", "pending"} -> "pending"
      [] w = "SGD" -> "sgd"
      [] w = "USD" -> "usd"
      [] OTHER -> w
Upper(w) == IF w \in {"PENDING", "Pending", "pending"} THEN "PENDING" ELSE w

\* The if debit / elif credit of the debit and credit column variants, with
\* the two columns swapped.
DebitCreditEmitSwapped(parts, acct, d, desc, debit, credit) ==
    IF Truthy(credit) THEN Emit(Transaction(d, desc, Neg(credit.value), acct, parts))
    ELSE IF Truthy(debit) THEN Emit(Transaction(d, desc, debit.value, acct, parts))
    ELSE Skip

\* The if debit / elif credit of the debit and credit column variants.
DebitCreditEmit(parts, acct, d, desc, debit, credit) ==
    IF Truthy(debit) THEN Emit(Transaction(d, desc, Neg(debit.value), acct, parts))
    ELSE IF Truthy(credit) THEN Emit(Transaction(d, desc, credit.value, acct, parts))
    ELSE Skip

\* A data row of a debit and credit column variant: the columns are the
\* source's indexes.
DebitCreditRow(parts, acct, min_cols, desc_col, debit_col, credit_col) ==
    IF Len(parts) < min_cols THEN Skip
    ELSE IF parse_date(Col(parts, 0)) = NoDate THEN Skip
    ELSE DebitCreditEmit(parts, acct,
            parse_date(Col(parts, 0)),
            clean_description(Col(parts, desc_col)),
            IF Len(parts) > debit_col THEN parse_amount(Col(parts, debit_col)) ELSE NoAmount,
            IF Len(parts) > credit_col THEN parse_amount(Col(parts, credit_col)) ELSE NoAmount)

OCBCCreditParser_row(parts, acct) == DebitCreditRow(parts, acct, 3, 1, 2, 3)

OCBC360Parser_row(row, acct) == DebitCreditRow(row, acct, 5, 2, 3, 4)

DBSSavingsParser_row(parts, acct) == DebitCreditRow(parts, acct, 8, 2, 7, 8)

\* parts[5].strip().lower() == "pending"
DBSStatusPending(cell) == cell.k = "text" /\ Len(cell.t) = 1 /\ Lower(cell.t[1]) = "pending"

\* A DBS credit row loop that looks at the status column before the date
\* but does not count.
DBSCreditParser_row_uncounted(parts, acct) ==
    IF Len(parts) < 7 THEN Skip
    ELSE IF Len(parts) > 5 /\ DBSStatusPending(Col(parts, 5)) THEN Skip
    ELSE DebitCreditRow(parts, acct, 7, 2, 6, 7)

DBSCreditParser_row(parts, acct) ==
    IF Len(parts) < 7 THEN Skip
    ELSE IF Len(parts) > 5 /\ DBSStatusPending(Col(parts, 5)) THEN Pending
    ELSE DebitCreditRow(parts, acct, 7, 2, 6, 7)

\* any("Previous Balance" in cell for cell in row)
HasPreviousBalance(row) ==
    \E i \in 1..Len(row) : \E j \in 1..Len(row[i].t) : row[i].t[j] = "Previous Balance"

\* posting_date.upper() == "PENDING"
UOBPostingPending(cell) == cell.k = "text" /\ Len(cell.t) = 1 /\ Upper(cell.t[1]) = "PENDING"

\* row[-1].strip(), or row[-2].strip() when that is empty
UOBAmountCell(row) ==
    IF ColFromEnd(row, 1).k # "empty" THEN ColFromEnd(row, 1)
    ELSE IF Len(row) >= 2 THEN ColFromEnd(row, 2) ELSE Empty

\* The single signed column variants: the amount is kept or negated.
SignedEmit(row, acct, d, desc, amount, negate) ==
    IF ~amount.ok THEN Skip
    ELSE Emit(Transaction(d, desc, IF negate THEN Neg(amount.value) ELSE amount.value,
                          acct, row))

\* A UOB row that keeps the sign of the file.
UOBCreditParser_row_keep(row, acct) ==
    IF Len(row) < 7 THEN Skip
    ELSE IF HasPreviousBalance(row) THEN Skip
    ELSE IF UOBPostingPending(Col(row, 1)) THEN Pending
    ELSE IF parse_date(Col(row, 1)) = NoDate THEN Skip
    ELSE SignedEmit(row, acct, parse_date(Col(row, 1)), clean_description(Col(row, 2)),
                    parse_amount(UOBAmountCell(row)), FALSE)

UOBCreditParser_row(row, acct) ==
    IF Len(row) < 7 THEN Skip
    ELSE IF HasPreviousBalance(row) THEN Skip
    ELSE IF UOBPostingPending(Col(row, 1)) THEN Pending
    ELSE IF parse_date(Col(row, 1)) = NoDate THEN Skip
    ELSE SignedEmit(row, acct, parse_date(Col(row, 1)), clean_description(Col(row, 2)),
                    parse_amount(UOBAmountCell(row)), TRUE)

HSBCRevolutionParser_row(row, acct) ==
    IF Len(row) < 3 THEN Skip
    ELSE IF parse_date(Col(row, 0)) = NoDate THEN Skip
    ELSE SignedEmit(row, acct, parse_date(Col(row, 0)), clean_description(Col(row, 1)),
                    parse_amount(ColFromEnd(row, 1)), FALSE)

\* A cell holding a 16-digit card number in apostrophes (CARD_PATTERN)
CardCell(id) == Cell("card", 0, FALSE, FALSE, Dec(0, 0), id)

CitiDefaultId == <<"C", "i", "t", "i", " ", "C", "a", "r", "d">>

\* A lookup that ignores the card number of the row.
CitiCardNum_default(cell) == CitiDefaultId

\* match.group(1) if match else "Citi Card"
CitiCardNum(cell) == IF cell.k = "card" THEN cell.t ELSE CitiDefaultId

CitiParser_row(self, row) ==
    IF Len(row) < 5 THEN Skip
    ELSE IF parse_date(Col(row, 0)) = NoDate THEN Skip
    ELSE SignedEmit(row, BankParser_get_account_name(self, CitiCardNum(Col(row, 4))),
                    parse_date(Col(row, 0)), clean_description(Col(row, 1)),
                    parse_amount(Col(row, 2)), FALSE)

\* A document: the identifier the variant's header pattern captures in the
\* leading lines (<<>>: none), the card-type words in the text, and the rows
\* after the column header.
Document(header_id, markers, rows) ==
    [header_id |-> header_id, markers |-> markers, rows |-> rows]

\* The account_id a variant starts from when its pattern finds none.
DefaultId(v) ==
    CASE v = "OCBCCreditParser" -> <<"O", "C", "B", "C", " ", "C", "a", "r", "d">>
      [] v = "OCBC360Parser" -> <<"O", "C", "B", "C", " ", "3", "6", "0">>
      [] v = "DBSSavingsParser" -> <<"D", "B", "S", " ", "S", "a", "v", "i", "n", "g", "s">>
      [] v = "DBSCreditParser" -> <<"D", "B", "S", " ", "C", "a", "r", "d">>
      [] OTHER -> <<>>

\* The card name UOB starts from.
UOBCardName(markers) ==
    IF "LADY'S SOLITAIRE" \in markers THEN <<"UOB Lady's Solitaire">>
    ELSE IF "PREFERRED PLATINUM" \in markers THEN <<"UOB Platinum VISA">>
    ELSE <<"UOB Card">>

\* The account_name a parse computes before its row loop (Citi computes it
\* in the loop).
account_name_of(self, doc) ==
    CASE self.variant \in {"OCBCCreditParser", "OCBC360Parser",
                           "DBSSavingsParser", "DBSCreditParser"} ->
            BankParser_get_account_name(self,
                IF doc.header_id # <<>> THEN doc.header_id ELSE DefaultId(self.variant))
      [] self.variant = "UOBCreditParser" ->
            IF doc.header_id # <<>>
            THEN BankParser_get_account_name(self, doc.header_id)
            ELSE UOBCardName(doc.markers)
      [] self.variant = "HSBCRevolutionParser" -> <<"HSBC Revolution">>
      [] OTHER -> <<>>

row_of(self, row, acct) ==
    CASE self.variant = "OCBCCreditParser" -> OCBCCreditParser_row(row, acct)
      [] self.variant = "OCBC360Parser" -> OCBC360Parser_row(row, acct)
      [] self.variant = "DBSSavingsParser" -> DBSSavingsParser_row(row, acct)
      [] self.variant = "DBSCreditParser" -> DBSCreditParser_row(row, acct)
      [] self.variant = "UOBCreditParser" -> UOBCreditParser_row(row, acct)
      [] self.variant = "HSBCRevolutionParser" -> HSBCRevolutionParser_row(row, acct)
      [] OTHER -> CitiParser_row(self, row)

\* The row loop of parse from row i.
RECURSIVE ParseRows(_, _, _, _, _)
ParseRows(self, rows, acct, i, acc) ==
    IF i > Len(rows) THEN acc
    ELSE ParseRows(self, rows, acct, i + 1,
                   [txs |-> acc.txs \o row_of(self, rows[i], acct).txs,
                    pending |-> acc.pending + row_of(self, rows[i], acct).pending])

\* parse(content): the transactions, and pending_skipped for the variants
\* that set the attribute.
parse_content(self, doc) ==
    ParseRows(self, doc.rows, account_name_of(self, doc), 1, Skip)

-----------------------------------------------------------------------------
(* Documents passed to parse *)

\* A row of n columns; cells gives the columns that are not empty, by the
\* source's zero-based index.
Row(n, cells) == [i \in 1..n |-> IF (i - 1) \in DOMAIN cells THEN cells[i - 1] ELSE Empty]

Desc1 == TextCell(<<"GRAB", "RIDE", "SG">>)
Desc2 == TextCell(<<"SALARY">>)

\* Rows of a debit and credit column variant with n columns: description
\* in column dc, debit in column a, credit in column b; short is a column
\* count below the variant's minimum.
DebitCreditRows(n, short, dc, a, b) ==
    { Row(n, 0 :> DateCell(3) @@ dc :> Desc1 @@ a :> AmountCell(FALSE, FALSE, 1250, -2)),
      Row(n, 0 :> DateCell(2) @@ dc :> Desc2 @@ b :> AmountCell(FALSE, FALSE, 10000, -2)),
      Row(n, 0 :> DateCell(1) @@ dc :> Desc1 @@ a :> AmountCell(FALSE, TRUE, 300, -2)),
      Row(n, 0 :> DateCell(1) @@ dc :> TextCell(<<"XXXX-XXXX-XXXX-1234">>)
                                         @@ b :> AmountCell(TRUE, FALSE, 400, -2)),
      Row(n, 0 :> DateCell(2) @@ dc :> Desc2 @@ a :> AmountCell(FALSE, FALSE, 0, -2)
                                         @@ b :> AmountCell(FALSE, FALSE, 200, -2)),
      Row(n, 0 :> DateCell(2) @@ dc :> Desc1 @@ a :> AmountCell(FALSE, FALSE, 500, -2)
                                         @@ b :> AmountCell(FALSE, FALSE, 600, -2)),
      Row(n, 0 :> DateCell(3) @@ dc :> Desc1),
      Row(n, 0 :> DateCell(3) @@ dc :> Desc2 @@ a :> AmountCell(FALSE, FALSE, 0, -2)
                                         @@ b :> AmountCell(FALSE, FALSE, 0, -2)),
      Row(n, 0 :> TextCell(<<"Total">>) @@ dc :> Desc1 @@ a :> AmountCell(FALSE, FALSE, 1250, -2)),
      Row(short, 0 :> DateCell(3) @@ 1 :> Desc1) }

\* DBS credit rows with a status column: settled, pending, and a pending
\* row cut off after its status column.
DBSCreditStatusRows ==
    { Row(8, 0 :> DateCell(3) @@ 2 :> Desc1 @@ 5 :> TextCell(<<"Settled">>)
             @@ 6 :> AmountCell(FALSE, FALSE, 1250, -2)),
      Row(8, 0 :> DateCell(3) @@ 2 :> Desc1 @@ 5 :> TextCell(<<"Pending">>)
             @@ 6 :> AmountCell(FALSE, FALSE, 700, -2)),
      Row(6, 0 :> DateCell(3) @@ 2 :> Desc1 @@ 5 :> TextCell(<<"Pending">>)) }

UOBRows ==
    { Row(7, 0 :> DateCell(2) @@ 1 :> DateCell(3) @@ 2 :> Desc1
             @@ 6 :> AmountCell(FALSE, FALSE, 1250, -2)),
      Row(7, 0 :> DateCell(1) @@ 1 :> DateCell(2) @@ 2 :> Desc2
             @@ 6 :> AmountCell(FALSE, TRUE, 10000, -2)),
      Row(7, 0 :> DateCell(1) @@ 1 :> DateCell(1) @@ 2 :> TextCell(<<"Ref No:123", "SG">>)
             @@ 5 :> AmountCell(FALSE, FALSE, 700, -2)),
      Row(7, 0 :> DateCell(1) @@ 1 :> DateCell(1) @@ 2 :> Desc1
             @@ 4 :> AmountCell(FALSE, FALSE, 900, -2)),
      Row(7, 0 :> DateCell(3) @@ 1 :> TextCell(<<"PENDING">>) @@ 2 :> Desc1
             @@ 6 :> AmountCell(FALSE, FALSE, 500, -2)),
      Row(6, 0 :> DateCell(3) @@ 1 :> TextCell(<<"PENDING">>) @@ 2 :> Desc1
             @@ 5 :> AmountCell(FALSE, FALSE, 500, -2)),
      Row(7, 0 :> DateCell(3) @@ 1 :> TextCell(<<"Pending">>)
             @@ 2 :> TextCell(<<"Previous Balance", "TRANSFER">>)
             @@ 6 :> AmountCell(FALSE, FALSE, 500, -2)),
      Row(7, 0 :> DateCell(1) @@ 1 :> DateCell(1) @@ 2 :> TextCell(<<"Previous Balance">>)
             @@ 6 :> AmountCell(FALSE, FALSE, 4200, -2)),
      Row(7, 0 :> DateCell(1) @@ 1 :> DateCell(1) @@ 2 :> Desc1 @@ 6 :> TextCell(<<"n/a">>)),
      Row(7, 0 :> DateCell(2) @@ 1 :> DateCell(2) @@ 2 :> Desc2
             @@ 6 :> AmountCell(FALSE, FALSE, 0, -2)),
      Row(7, 0 :> DateCell(1) @@ 1 :> TextCell(<<"Total">>) @@ 2 :> Desc1
             @@ 6 :> AmountCell(FALSE, FALSE, 1250, -2)) }

HSBCRows ==
    { Row(3, 0 :> DateCell(3) @@ 1 :> Desc1 @@ 2 :> AmountCell(FALSE, TRUE, 1250, -2)),
      Row(3, 0 :> DateCell(2) @@ 1 :> Desc2 @@ 2 :> AmountCell(FALSE, FALSE, 10000, -2)),
      Row(3, 0 :> DateCell(1) @@ 2 :> AmountCell(TRUE, FALSE, 300, -2)),
      Row(4, 0 :> DateCell(1) @@ 1 :> Desc1 @@ 2 :> AmountCell(FALSE, FALSE, 100, -2)
             @@ 3 :> AmountCell(FALSE, TRUE, 900, -2)),
      Row(3, 0 :> DateCell(1) @@ 1 :> Desc1 @@ 2 :> TextCell(<<"n/a">>)),
      Row(3, 0 :> DateCell(2) @@ 1 :> Desc2 @@ 2 :> AmountCell(FALSE, FALSE, 0, -2)),
      Row(4, 0 :> DateCell(1) @@ 1 :> Desc1 @@ 2 :> AmountCell(FALSE, TRUE, 900, -2)),
      Row(3, 0 :> TextCell(<<"Total">>) @@ 1 :> Desc1 @@ 2 :> AmountCell(FALSE, TRUE, 1250, -2)),
      Row(2, 0 :> DateCell(3) @@ 1 :> Desc1) }

\* Card numbers of the Citi rows: the first ends like a configured
\* identifier, the second like none.
CitiRows ==
    { Row(5, 0 :> DateCell(3) @@ 1 :> Desc1 @@ 2 :> AmountCell(FALSE, TRUE, 1250, -2)
             @@ 4 :> CardCell(<<"2", "2", "1", "1", "1", "1">>)),
      Row(5, 0 :> DateCell(2) @@ 1 :> Desc2 @@ 2 :> AmountCell(FALSE, FALSE, 10000, -2)
             @@ 4 :> CardCell(<<"2", "2", "1", "1", "1", "1">>)),
      Row(5, 0 :> DateCell(2) @@ 1 :> Desc1 @@ 2 :> AmountCell(TRUE, FALSE, 300, -2)
             @@ 4 :> CardCell(<<"1", "1", "2", "2", "2", "2">>)),
      Row(5, 0 :> DateCell(1) @@ 1 :> Desc1 @@ 2 :> AmountCell(FALSE, TRUE, 900, -2)),
      Row(5, 0 :> DateCell(2) @@ 1 :> Desc2 @@ 2 :> AmountCell(FALSE, FALSE, 0, -2)
             @@ 4 :> CardCell(<<"2", "2", "1", "1", "1", "1">>)),
      Row(5, 0 :> DateCell(1) @@ 1 :> Desc1 @@ 2 :> TextCell(<<"n/a">>)
             @@ 4 :> CardCell(<<"2", "2", "1", "1", "1", "1">>)),
      Row(5, 0 :> TextCell(<<"Total">>) @@ 1 :> Desc1
             @@ 2 :> AmountCell(FALSE, TRUE, 1250, -2) @@ 4 :> CardCell(<<"2", "2", "1", "1", "1", "1">>)),
      Row(4, 0 :> DateCell(3) @@ 1 :> Desc1 @@ 2 :> AmountCell(FALSE, TRUE, 1250, -2)) }

RowsFor(v) ==
    CASE v = "OCBCCreditParser" -> DebitCreditRows(4, 2, 1, 2, 3)
      [] v = "OCBC360Parser" -> DebitCreditRows(5, 4, 2, 3, 4)
      [] v = "DBSSavingsParser" -> DebitCreditRows(9, 7, 2, 7, 8)
      [] v = "DBSCreditParser" -> DebitCreditRows(8, 5, 2, 6, 7) \cup DBSCreditStatusRows
      [] v = "UOBCreditParser" -> UOBRows
      [] v = "HSBCRevolutionParser" -> HSBCRows
      [] OTHER -> CitiRows

\* The identifiers the header pattern of a variant can capture: dashed digit
\* groups, or for UOB a run of digits of any length; HSBC and Citi read none.
HeaderIdsFor(v) ==
    CASE v \in {"OCBCCreditParser", "OCBC360Parser", "DBSSavingsParser", "DBSCreditParser"} ->
            {<<>>, <<"2", "2", "-", "1", "1", "1", "1">>, <<"1", "1", "-", "2", "2", "2", "2">>}
      [] v = "UOBCreditParser" ->
            {<<>>, <<"2", "2", "1", "1", "1", "1">>, <<"2", "2", "2">>}
      [] OTHER -> {<<>>}

RowLists(v, n) == UNION {[1..k -> RowsFor(v)] : k \in 0..n}

DocumentsFor(v) ==
    {Document(h, m, rows) :
        h \in HeaderIdsFor(v),
        m \in IF v = "UOBCreditParser"
               THEN {{"LADY'S SOLITAIRE"}, {"PREFERRED PLATINUM"}, {}}
               ELSE {{}},
        rows \in RowLists(v, MaxRows)}

\* The "accounts" list of the loaded config.
ConfiguredAccounts ==
    << [card_number |-> <<"1", "1", "1", "1">>, name |-> <<"Card A">>],
       [card_number |-> <<"2", "1", "1", "1", "1">>, name |-> <<"Card B">>],
       [card_number |-> <<"1", "2">>, name |-> <<"Short">>] >>

Configs == {Config(FALSE, <<>>), Config(TRUE, ConfiguredAccounts)}

\* Override names given to the constructor (<<>>: none).
Overrides == {<<>>, <<"Pinned">>}

\* No parser instance has been made.
IdleParser ==
    /\ instance = Parser("", <<>>, Config(FALSE, <<>>))
    /\ document = Document(<<>>, {}, <<>>)
    /\ parse_op = "idle"
    /\ transactions = <<>>
    /\ pending_skipped = -1

\* instance.parse(document)
Parse ==
    /\ parse_op = "idle"
    /\ \E r \in {parse_content(instance, document)} :
           /\ transactions' = r.txs
           /\ pending_skipped' = IF instance.variant \in PendingVariants
                                  THEN r.pending ELSE pending_skipped
    /\ parse_op' = "parse"
    /\ UNCHANGED <<instance, document>>

-----------------------------------------------------------------------------
(* Calls of the parsing utilities *)

\* Words of a description: a merchant word, two trailing codes, a card mask
\* and a reference fragment.
Words == {"GRAB", "SG", "USD", "XXXX-XXXX-XXXX-1234", "Ref No:123"}

WordLists(n) == UNION {[1..k -> Words] : k \in 0..n}

\* Cell texts passed to parse_amount: blank, not a number, and numbers with
\* and without parentheses and a leading minus sign.
AmountTexts ==
    {Empty, TextCell(<<"n/a">>)}
    \cup {AmountCell(p, m, c, -2) : p \in BOOLEAN, m \in BOOLEAN, c \in {0, 12345}}

\* No utility has been called.
IdleUtils ==
    /\ raw_desc = <<>>
    /\ cleaned = <<>>
    /\ amount_str = Empty
    /\ amounts = <<>>

\* clean_description(raw_desc), and then clean_description of what it returned
CleanDescription ==
    /\ Len(cleaned) < 2
    /\ cleaned' = Append(cleaned,
            clean_description(TextCell(IF cleaned = <<>> THEN raw_desc
                                       ELSE cleaned[Len(cleaned)])))
    /\ UNCHANGED <<raw_desc, amount_str, amounts>>

\* parse_amount(amount_str)
ParseAmount ==
    /\ amounts = <<>>
    /\ amounts' = <<parse_amount(amount_str)>>
    /\ UNCHANGED <<raw_desc, cleaned, amount_str>>

-----------------------------------------------------------------------------
(* Lunch Money client *)

\* hexdigest of a SHA-256 hash: 64 hexadecimal characters
Sha256HexLen == 64
\* tx.reference[:75], hexdigest()[:75]
MaxExternalIdLen == 75
\* tx.description[:140]
MaxPayeeLen == 140
\* LunchMoneyClient.MAX_BATCH_SIZE
MAX_BATCH_SIZE == 500

\* A Decimal: a finite number, or a signalling NaN.
Finite(coef, exp) == [coef |-> coef, exp |-> exp, special |-> ""]
SNaN == [coef |-> 0, exp |-> 0, special |-> "sNaN"]

\* str(amount)
AmountStr(a) == IF a.special # "" THEN <<a.special>> ELSE DecimalStr(a)

\* float(amount): the number without its trailing zeros
RECURSIVE float(_)
float(a) ==
    IF a.coef = 0 THEN Dec(0, 0)
    ELSE IF a.coef % 10 = 0 THEN float(Dec(a.coef \div 10, a.exp + 1))
    ELSE Dec(a.coef, a.exp)

\* float(amount) raises ValueError for a signalling NaN
FloatRaises(a) == a.special = "sNaN"

\* An Optional[str] reference
NoReference == [none |-> TRUE, text |-> <<>>]
Reference(text) == [none |-> FALSE, text |-> text]

\* date.isoformat() of a day of January 2024
isoformat(d) == <<2024, 1, d>>

\* The Transaction fields the client reads, and raw_data.
UploadTx(d, desc, amt, acct, cur, cat, ref, raw) ==
    [date |-> d, description |-> desc, amount |-> amt, account |-> acct,
     original_currency |-> cur, category |-> cat, reference |-> ref, raw_data |-> raw]

\* hashlib.sha256(data.encode()).hexdigest()[:n]: the digest stands for the
\* data hashed, and has the length of the hexadecimal text kept.
HexDigestPrefix(data, n) == [text |-> <<>>, sha256 |-> data, len |-> Min(Sha256HexLen, n)]

\* A generate_external_id that hashes every field of the transaction.
generate_external_id_all_fields(tx) ==
    IF ~tx.reference.none /\ tx.reference.text # <<>>
    THEN [text |-> Prefix(tx.reference.text, MaxExternalIdLen), sha256 |-> <<>>,
          len |-> Len(Prefix(tx.reference.text, MaxExternalIdLen))]
    ELSE HexDigestPrefix(<<isoformat(tx.date), "|", AmountStr(tx.amount), "|",
                           tx.description, "|", tx.account, "|",
                           tx.original_currency, tx.category, tx.raw_data>>,
                         MaxExternalIdLen)

\* generate_external_id(tx)
generate_external_id(tx) ==
    IF ~tx.reference.none /\ tx.reference.text # <<>>
    THEN [text |-> Prefix(tx.reference.text, MaxExternalIdLen), sha256 |-> <<>>,
          len |-> Len(Prefix(tx.reference.text, MaxExternalIdLen))]
    ELSE HexDigestPrefix(<<isoformat(tx.date), "|", AmountStr(tx.amount), "|",
                           tx.description, "|", tx.account>>,
                         MaxExternalIdLen)

\* transaction_to_payload(tx, asset_id)
transaction_to_payload(tx, asset_id) ==
    [date |-> isoformat(tx.date),
     amount |-> float(tx.amount),
     payee |-> Prefix(tx.description, MaxPayeeLen),
     currency |-> Lower(tx.original_currency),
     asset_id |-> asset_id,
     external_id |-> generate_external_id(tx),
     status |-> "uncleared"]

\* account_mapping.get(tx.account) is not None
HasAssetId(account_mapping, tx) == tx.account \in DOMAIN account_mapping

\* A filter that also drops the accounts whose asset id is 0.
FilterResult_truthy(txs, account_mapping) ==
    LET kept == SelectSeq(txs,
                          LAMBDA tx : HasAssetId(account_mapping, tx)
                                      /\ account_mapping[tx.account] # 0)
    IN  [raised |-> \E k \in 1..Len(kept) : FloatRaises(kept[k].amount),
         skipped |-> Len(txs) - Len(kept),
         payloads |-> [k \in 1..Len(kept) |->
                         transaction_to_payload(kept[k], account_mapping[kept[k].account])]]

\* The first loop of upload_transactions: the payloads of the transactions
\* with a mapped account, the count of the others, and whether building a
\* payload raised.
FilterResult(txs, account_mapping) ==
    LET kept == SelectSeq(txs, LAMBDA tx : HasAssetId(account_mapping, tx))
    IN  [raised |-> \E k \in 1..Len(kept) : FloatRaises(kept[k].amount),
         skipped |-> Len(txs) - Len(kept),
         payloads |-> [k \in 1..Len(kept) |->
                         transaction_to_payload(kept[k], account_mapping[kept[k].account])]]

\* payloads[i : i + MAX_BATCH_SIZE]
BatchAt(pls, i) == SubSeq(pls, i + 1, Min(i + MAX_BATCH_SIZE, Len(pls)))

\* What a request does: it raises, or it returns a body with len(ids) ids.
Raises(e) == [raised |-> e, ids |-> 0]
Returns(n) == [raised |-> "", ids |-> n]

\* What the server can answer to a batch: every transaction created, one
\* or all of them dropped as duplicates, an HTTP error status, no connection.
ResponsesTo(batch) ==
    {Raises("HTTPError"), Raises("ConnectionError"),
     Returns(Len(batch)), Returns(Len(batch) - 1), Returns(0)}

UploadResult(uploaded, skipped, errs) ==
    [uploaded |-> uploaded, skipped |-> skipped, errors |-> errs]

\* A batch loop that gives up after the first failed batch.
BatchStep_stop(acc, pls, i, r) ==
    IF acc.errors # <<>> THEN acc
    ELSE IF r.raised # ""
    THEN [acc EXCEPT !.errors = Append(@, <<"Batch", i \div MAX_BATCH_SIZE + 1, r.raised>>),
                     !.posted = Append(@, BatchAt(pls, i))]
    ELSE [acc EXCEPT !.uploaded = @ + r.ids,
                     !.skipped = @ + (Len(BatchAt(pls, i)) - r.ids),
                     !.posted = Append(@, BatchAt(pls, i))]

\* One iteration of the batch loop: the request for the batch at i got
\* response r.
BatchStep(acc, pls, i, r) ==
    IF r.raised # ""
    THEN [acc EXCEPT !.errors = Append(@, <<"Batch", i \div MAX_BATCH_SIZE + 1, r.raised>>),
                     !.posted = Append(@, BatchAt(pls, i))]
    ELSE [acc EXCEPT !.uploaded = @ + r.ids,
                     !.skipped = @ + (Len(BatchAt(pls, i)) - r.ids),
                     !.posted = Append(@, BatchAt(pls, i))]

\* for i in range(0, len(payloads), MAX_BATCH_SIZE), from the k-th batch on
RECURSIVE BatchLoop(_, _, _, _)
BatchLoop(acc, pls, rs, k) ==
    IF (k - 1) * MAX_BATCH_SIZE >= Len(pls) THEN acc
    ELSE BatchLoop(BatchStep(acc, pls, (k - 1) * MAX_BATCH_SIZE, rs[k]), pls, rs, k + 1)

\* len(range(0, n, MAX_BATCH_SIZE))
RangeLen(n) == (n + MAX_BATCH_SIZE - 1) \div MAX_BATCH_SIZE

\* The response lists the server can give to the batches of a payload list.
ResponseLists(pls) ==
    {rs \in [1..RangeLen(Len(pls)) ->
                {Raises("HTTPError"), Raises("ConnectionError")}
                \cup {Returns(n) : n \in {0, MAX_BATCH_SIZE - 1, MAX_BATCH_SIZE,
                                          Len(pls) % MAX_BATCH_SIZE,
                                          (Len(pls) % MAX_BATCH_SIZE) - 1}}] :
        \A k \in DOMAIN rs : rs[k] \in ResponsesTo(BatchAt(pls, (k - 1) * MAX_BATCH_SIZE))}

\* Transactions handed to the client: two DBS purchases that differ only in
\* currency, category and raw_data; a UOB one with a bank reference (UOB is
\* mapped to asset id 0); a Citi one (Citi is not mapped); one with a
\* reference longer than an external id; one with an empty reference and
\* the amount written with one decimal; one with a signalling NaN amount.
Samples ==
    <<UploadTx(1, <<"GRAB">>, Finite(-1250, -2), "DBS", "SGD", None, NoReference, "row 1"),
      UploadTx(1, <<"GRAB">>, Finite(-1250, -2), "DBS", "USD", "Food", NoReference, "row 2"),
      UploadTx(2, <<"SALARY">>, Finite(10000, -2), "UOB", "SGD", None,
               Reference(<<"T", "X", "9">>), "row 3"),
      UploadTx(2, <<"GRAB">>, Finite(-300, -2), "Citi", "SGD", None, NoReference, "row 4"),
      UploadTx(3, <<"GRAB">>, Finite(-300, -2), "DBS", "SGD", None,
               Reference([k \in 1..(MaxExternalIdLen + 5) |-> IF k <= MaxExternalIdLen THEN "A" ELSE "B"]),
               "row 5"),
      UploadTx(1, <<"GRAB">>, Finite(-125, -1), "DBS", "SGD", None, Reference(<<>>), "row 6"),
      UploadTx(3, <<"GRAB">>, SNaN, "DBS", "SGD", None, NoReference, "row 7")>>

\* The orders in which the samples repeat in a list.
Patterns == {<<1, 2, 3, 5, 6>>, <<4>>, <<4, 1, 3, 4, 2, 5>>, <<1, 6, 7>>}

\* Lengths of the lists: none, one, and one below, at and above each
\* multiple of the batch size.
Lengths == {0, 1} \cup {k * MAX_BATCH_SIZE + d : k \in 1..MaxBatches, d \in {-1, 0, 1}}

TransactionLists ==
    {[k \in 1..n |-> Samples[p[((k - 1) % Len(p)) + 1]]] : n \in Lengths, p \in Patterns}

AccountMappings == {("DBS" :> 7) @@ ("UOB" :> 0)}

\* upload_transactions has not been called.
IdleUpload ==
    /\ upload_op = "idle"
    /\ upload_input = [transactions |-> <<>>, account_mapping |-> <<>>]
    /\ payloads = <<>>
    /\ posted = <<>>
    /\ responses = <<>>
    /\ upload_result = UploadResult(0, 0, <<>>)

\* upload_transactions(transactions, account_mapping): rs is what the
\* requests return or raise, one per batch.
UploadTransactions ==
    /\ upload_op = "idle"
    /\ \E f \in {FilterResult(upload_input.transactions, upload_input.account_mapping)} :
          IF f.raised
          THEN /\ upload_op' = "raised"
               /\ UNCHANGED <<payloads, posted, responses, upload_result>>
          ELSE \E rs \in ResponseLists(f.payloads) :
                  \E acc \in {BatchLoop([uploaded |-> 0, skipped |-> f.skipped,
                                         errors |-> <<>>, posted |-> <<>>],
                                        f.payloads, rs, 1)} :
                      /\ upload_op' = "returned"
                      /\ payloads' = f.payloads
                      /\ posted' = acc.posted
                      /\ responses' = rs
                      /\ upload_result' = UploadResult(acc.uploaded, acc.skipped, acc.errors)
    /\ UNCHANGED upload_input

-----------------------------------------------------------------------------
(* Specifications *)

\* The normalizer, with the registry as the imports leave it.
Init ==
    InitRegistry /\ InitNormalizer /\ IdleNames /\ IdleParser /\ IdleUtils /\ IdleUpload

Next ==
    \/ \E path \in Paths : ProcessFile(path) /\ UNCHANGED <<regvars, namevars, parsevars, utilvars, uploadvars>>
    \/ \E paths \in PathLists(MaxFiles - handled) : ProcessFiles(paths) /\ UNCHANGED <<regvars, namevars, parsevars, utilvars, uploadvars>>
    \/ CallerContinues /\ UNCHANGED <<regvars, namevars, parsevars, utilvars, uploadvars>>

Spec == Init /\ [][Next]_vars

\* The registry alone.
InitReg ==
    /\ _parsers = ImportOrder
    /\ reg_op = "import"
    /\ content \in Contents
    /\ selected = None
    /\ tried = <<>>
    /\ registered = None
    /\ InitNormalizer
    /\ deduplicate = TRUE
    /\ sort_descending = TRUE
    /\ IdleNames
    /\ IdleParser
    /\ IdleUtils
    /\ IdleUpload

NextReg ==
    \/ \E v \in Variants : Register(v) /\ UNCHANGED <<normvars, namevars, parsevars, utilvars, uploadvars>>
    \/ Clear /\ UNCHANGED <<normvars, namevars, parsevars, utilvars, uploadvars>>
    \/ GetParser /\ UNCHANGED <<normvars, namevars, parsevars, utilvars, uploadvars>>

SpecRegistry == InitReg /\ [][NextReg]_vars

\* The registry and the normalizer as the imports and the constructor leave
\* them.
Untouched ==
    /\ InitRegistry
    /\ InitNormalizer
    /\ deduplicate = TRUE
    /\ sort_descending = TRUE

\* AccountMapping.matches alone.
InitMatchesSpec ==
    /\ Untouched
    /\ IdleParser
    /\ IdleUtils
    /\ IdleUpload
    /\ identifier \in Strings(MaxIdLen)
    /\ mappings \in {<<m>> : m \in ConfiguredMappings}
    /\ name_op = "idle"
    /\ matched = FALSE
    /\ name = <<>>
    /\ consulted = 0

NextMatches == Matches /\ UNCHANGED <<regvars, normvars, parsevars, utilvars, uploadvars>>

SpecMatches == InitMatchesSpec /\ [][NextMatches]_vars

\* get_account_name alone.
InitNamer ==
    /\ Untouched
    /\ IdleParser
    /\ IdleUtils
    /\ IdleUpload
    /\ identifier \in Strings(MaxIdLen)
    /\ mappings \in MappingLists(MaxMappings)
    /\ name_op = "idle"
    /\ matched = FALSE
    /\ name = <<>>
    /\ consulted = 0

NextNamer == GetAccountName /\ UNCHANGED <<regvars, normvars, parsevars, utilvars, uploadvars>>

SpecNamer == InitNamer /\ [][NextNamer]_vars

\* The parse method of each variant alone: an instance as its constructor
\* leaves it, and a document.
InitParserSpec ==
    /\ Untouched
    /\ IdleNames
    /\ IdleUtils
    /\ IdleUpload
    /\ \E v \in Variants :
          /\ instance \in {Parser(v, o, c) : o \in Overrides, c \in Configs}
          /\ document \in DocumentsFor(v)
    /\ parse_op = "idle"
    /\ transactions = <<>>
    /\ pending_skipped = -1

NextParser == Parse /\ UNCHANGED <<regvars, normvars, namevars, utilvars, uploadvars>>

SpecParser == InitParserSpec /\ [][NextParser]_vars

\* The parsing utilities alone.
InitUtils ==
    /\ Untouched
    /\ IdleNames
    /\ IdleParser
    /\ IdleUpload
    /\ raw_desc \in WordLists(MaxWords)
    /\ cleaned = <<>>
    /\ amount_str \in AmountTexts
    /\ amounts = <<>>

NextUtils ==
    \/ CleanDescription /\ UNCHANGED <<regvars, normvars, namevars, parsevars, uploadvars>>
    \/ ParseAmount /\ UNCHANGED <<regvars, normvars, namevars, parsevars, uploadvars>>

SpecUtils == InitUtils /\ [][NextUtils]_vars

\* The Lunch Money client alone.
InitUpload ==
    /\ Untouched
    /\ IdleNames
    /\ IdleParser
    /\ IdleUtils
    /\ upload_op = "idle"
    /\ upload_input \in [transactions : TransactionLists, account_mapping : AccountMappings]
    /\ payloads = <<>>
    /\ posted = <<>>
    /\ responses = <<>>
    /\ upload_result = UploadResult(0, 0, <<>>)

NextUpload ==
    UploadTransactions /\ UNCHANGED <<regvars, normvars, namevars, parsevars, utilvars>>

SpecUpload == InitUpload /\ [][NextUpload]_vars

-----------------------------------------------------------------------------
(* Vocabulary of the properties, stated on the files themselves *)

Range(seq) == {seq[i] : i \in 1..Len(seq)}

Count(seq, x) == Cardinality({i \in 1..Len(seq) : seq[i] = x})

RECURSIVE Concat(_)
Concat(seqs) == IF seqs = <<>> THEN <<>> ELSE Head(seqs) \o Concat(Tail(seqs))

RECURSIVE Sum(_)
Sum(ns) == IF ns = <<>> THEN 0 ELSE Head(ns) + Sum(Tail(ns))

\* The key of the deduplication rule.
RuleKey(tx) ==
    <<tx.date, SubSeq(tx.description, 1, Min(30, Len(tx.description))),
      DecimalStr(tx.amount), tx.account>>

ReadAsExcel(f) == f.xlsSuffix \/ (f.exists /\ ~f.isDir /\ f.xlsMagic)

\* What becomes of a file: the operating system refuses to read it, the
\* reader reports it unreadable, no variant accepts it, its parse raises, or
\* it parses.
Fate(path) ==
    LET f == FileSystem[path]
    IN  CASE ~ReadAsExcel(f) /\ f.exists /\ f.isDir -> "os_error"
          [] ~ReadAsExcel(f) /\ ~f.exists -> "read_error"
          [] ReadAsExcel(f) /\ ~(f.exists /\ ~f.isDir /\ f.workbookOk) -> "read_error"
          [] OTHER ->
                IF \A v \in Variants : ~can_parse(v, f.markers) THEN "no_parser"
                ELSE IF \E i \in 1..Len(f.rows) : f.rows[i].kind = "raise" THEN "parse_error"
                ELSE "ok"

RowsOfKind(path, k) == SelectSeq(FileSystem[path].rows, LAMBDA r : r.kind = k)

\* The transactions of a file that parses.
TxsOfFile(path) ==
    IF Fate(path) = "ok"
    THEN [i \in 1..Len(RowsOfKind(path, "tx")) |-> RowsOfKind(path, "tx")[i].tx]
    ELSE <<>>

TxsOfFiles(paths) == Concat([i \in 1..Len(paths) |-> TxsOfFile(paths[i])])

\* The index of the first raising row of a file (0: none).
FirstRaise(path) ==
    LET rows == FileSystem[path].rows
        at == {i \in 1..Len(rows) : rows[i].kind = "raise"}
    IN  IF at = {} THEN 0 ELSE CHOOSE i \in at : \A j \in at : i <= j

\* The pending rows the parser of a file skips before it returns or raises.
PendingSkippedBy(path) ==
    IF Fate(path) \notin {"ok", "parse_error"} THEN 0
    ELSE LET rows == FileSystem[path].rows
             stop == IF FirstRaise(path) = 0 THEN Len(rows) ELSE FirstRaise(path)
         IN  Cardinality({i \in 1..stop : rows[i].kind = "pending"})

\* The transactions a parse had extracted when it raised.
ExtractedBeforeRaise(path) ==
    IF Fate(path) # "parse_error" THEN {}
    ELSE LET rows == FileSystem[path].rows
         IN  {rows[i].tx : i \in {j \in 1..FirstRaise(path) : rows[j].kind = "tx"}}

ParseErrorOf(path) ==
    <<path, <<"Parse error", FileSystem[path].rows[FirstRaise(path)].error>>>>

Returned(method) == op = method /\ outcome = "returned"

FailedFiles(paths) == SelectSeq(paths, LAMBDA path : Fate(path) # "ok")

-----------------------------------------------------------------------------
(* Properties of the normalizer (specification Spec) *)

\* The positions of all_transactions that hold the first transaction of a key.
FirstSeen == {k \in 1..Len(all_transactions) :
                \A j \in 1..(k - 1) : RuleKey(all_transactions[j]) # RuleKey(all_transactions[k])}

\* C1: after process_files with deduplicate=True no two returned transactions
\* share the key (date, description[:30], str(amount), account); for every
\* key among the parsed transactions exactly one transaction with that key
\* is returned, the first seen in file order then row order; and the
\* survivors keep their relative input order before sorting.  The rest of
\* the description and raw_data play no part in which transaction is dropped.
C1_DedupFirstSeen ==
    (Returned("process_files") /\ deduplicate) =>
        /\ \A i, j \in 1..Len(result) :
              i # j => RuleKey(result[i]) # RuleKey(result[j])
        /\ \A k \in 1..Len(all_transactions) :
              LET same == {i \in 1..Len(result) :
                             RuleKey(result[i]) = RuleKey(all_transactions[k])}
                  first == CHOOSE f \in FirstSeen :
                             RuleKey(all_transactions[f]) = RuleKey(all_transactions[k])
              IN  /\ Cardinality(same) = 1
                  /\ \A i \in same : result[i] = all_transactions[first]
        /\ Len(result) = Cardinality(FirstSeen)
        /\ Len(unique) = Cardinality(FirstSeen)
        /\ \A i, j \in 1..Len(unique) :
              i < j => \E a, b \in FirstSeen :
                          /\ a < b
                          /\ all_transactions[a] = unique[i]
                          /\ all_transactions[b] = unique[j]

\* A duplicate was dropped whose full description and raw_data differ from
\* those of the survivor with its key.
C1_Witness ==
    /\ Returned("process_files") /\ deduplicate
    /\ \E k \in 1..Len(all_transactions), i \in 1..Len(result) :
          /\ all_transactions[k] \notin Range(result)
          /\ RuleKey(result[i]) = RuleKey(all_transactions[k])
          /\ result[i].description # all_transactions[k].description
          /\ result[i].raw_data # all_transactions[k].raw_data

\* C2: for any list of files of which some are unreadable (missing, refused
\* by the operating system, undecodable, corrupt), unrecognized or raise in
\* parsing, process_files does not raise and returns exactly the transactions
\* of the files that parsed.
C2_NeverRaises ==
    op = "process_files" =>
        /\ outcome = "returned"
        /\ all_transactions = TxsOfFiles(files)

\* C3: after process_files(files), errors holds exactly one pair per failed
\* file occurrence and none for a file that parsed, in the order of the files;
\* a file no variant accepts has the message "No parser found for this file
\* format".
C3_ErrorsPerFailedFile ==
    op = "process_files" =>
        /\ Len(_errors) = Len(FailedFiles(files))
        /\ \A i \in 1..Len(_errors) :
              /\ i <= Len(FailedFiles(files))
              /\ _errors[i][1] = FailedFiles(files)[i]
              /\ Fate(_errors[i][1]) = "no_parser"
                    => _errors[i][2] = "No parser found for this file format"

\* C4: with sort_descending=True the returned list is non-increasing by date
\* and transactions of one date keep the relative order they had in the
\* combined list after deduplication.
C4_StableSortDescending ==
    (Returned("process_files") /\ sort_descending) =>
        /\ Len(result) = Len(unique)
        /\ \A i \in 1..(Len(result) - 1) : result[i].date >= result[i + 1].date
        /\ \A d \in {unique[i].date : i \in 1..Len(unique)} :
              SelectSeq(result, LAMBDA t : t.date = d) = SelectSeq(unique, LAMBDA t : t.date = d)

\* The sort moved a transaction and the list holds two different transactions
\* of one date.
C4_Witness ==
    /\ Returned("process_files") /\ sort_descending
    /\ result # unique
    /\ \E i \in 1..(Len(result) - 1) :
          /\ result[i].date = result[i + 1].date
          /\ result[i] # result[i + 1]

\* C5: with deduplicate=False process_files returns every transaction of
\* every file occurrence (as a multiset, the concatenation of the per-file
\* results), so a file listed twice yields twice the transactions of the file
\* listed once; with deduplicate=True a file listed twice yields as many as
\* the file listed once.
C5_DedupOnOff ==
    Returned("process_files") =>
        /\ ~deduplicate =>
              /\ Len(result) = Len(TxsOfFiles(files))
              /\ \A t \in Range(result) \cup Range(TxsOfFiles(files)) :
                    Count(result, t) = Count(TxsOfFiles(files), t)
        /\ (Len(files) = 2 /\ files[1] = files[2]) =>
              LET once == process_files(_parsers, deduplicate, sort_descending,
                                        Acc(<<>>, 0), <<files[1]>>)
              IN  /\ ~once.raised
                  /\ ~deduplicate => Len(result) = 2 * Len(once.txs)
                  /\ deduplicate => Len(result) = Len(once.txs)

\* Without deduplication a file with transactions was listed twice.
C5_Witness ==
    /\ Returned("process_files") /\ ~deduplicate
    /\ Len(files) = 2 /\ files[1] = files[2]
    /\ Len(result) >= 2
    /\ \E t \in Range(result) : Count(result, t) = 2

\* C6: a parse failure is all-or-nothing per file: when parse raises after
\* having extracted transactions, process_file returns none of them and
\* records one "Parse error" entry for the file, and the transactions of the
\* other files are unaffected.
C6_ParseFailureAllOrNothing ==
    /\ (op = "process_file" /\ Fate(files[1]) = "parse_error") =>
          /\ outcome = "returned"
          /\ result = <<>>
          /\ _errors = Append(entry.errors, ParseErrorOf(files[1]))
    /\ Returned("process_files") =>
          /\ all_transactions = TxsOfFiles(files)
          /\ \A path \in Range(files) :
                Fate(path) = "parse_error" =>
                    /\ ExtractedBeforeRaise(path) \cap Range(result) = {}
                    /\ Count(_errors, ParseErrorOf(path)) = Count(files, path)

\* A file whose parse raised after extracting a transaction was processed
\* together with a file that parsed.
C6_Witness ==
    /\ Returned("process_files")
    /\ \E path \in Range(files) : ExtractedBeforeRaise(path) # {}
    /\ result # <<>>

\* C7: the accumulators are reset once per process_files invocation: after
\* any sequence of calls, errors and pending_skipped are those of the most
\* recent process_files alone, whatever had accumulated before it.
C7_ResetPerInvocation ==
    op = "process_files" =>
        LET fresh == process_files(_parsers, deduplicate, sort_descending, Acc(<<>>, 0), files)
        IN  /\ _errors = fresh.errors
            /\ _pending_skipped = fresh.pending
            /\ \A i \in 1..Len(_errors) : _errors[i][1] \in Range(files)
            /\ Len(_errors) <= Len(files)

\* process_files was entered with errors and a pending count accumulated by
\* an earlier call, and left with neither.
C7_Witness ==
    /\ Returned("process_files")
    /\ entry.errors # <<>> /\ entry.pending > 0
    /\ _errors = <<>> /\ _pending_skipped = 0

PendingOfCompleted(path) == IF Fate(path) = "ok" THEN PendingSkippedBy(path) ELSE 0

PendingPayloads(paths) ==
    UNION {{r.tx : r \in Range(RowsOfKind(path, "pending"))} : path \in Range(paths)}

\* C8 as stated: after process_files(files), pending_skipped is the sum over
\* all file occurrences of the pending rows the file's parser skipped; pending
\* rows are never in errors and never among the returned transactions.
C8_PendingSumAllFiles ==
    Returned("process_files") =>
        /\ _pending_skipped = Sum([i \in 1..Len(files) |-> PendingSkippedBy(files[i])])
        /\ Len(_errors) <= Len(FailedFiles(files))
        /\ PendingPayloads(files) \cap Range(result) = {}

\* C8 amended: when process_files(files) returns, pending_skipped is the sum
\* over the file occurrences whose parse completed of the pending rows that
\* parse skipped (a file listed twice counts twice); the pending rows skipped
\* by a parse that then raised are not counted; pending rows are never in
\* errors and never among the returned transactions.
C8_PendingSumCompleted ==
    Returned("process_files") =>
        /\ _pending_skipped = Sum([i \in 1..Len(files) |-> PendingOfCompleted(files[i])])
        /\ Len(_errors) = Len(FailedFiles(files))
        /\ PendingPayloads(files) \cap Range(result) = {}

\* A file with pending rows was listed twice under deduplication, and its
\* pending rows were counted twice.
C8_Witness ==
    /\ Returned("process_files") /\ deduplicate
    /\ Len(files) = 2 /\ files[1] = files[2]
    /\ PendingSkippedBy(files[1]) > 0
    /\ _pending_skipped = 2 * PendingSkippedBy(files[1])
    /\ Len(result) < Len(all_transactions)

-----------------------------------------------------------------------------
(* Properties of the registry (specification SpecRegistry) *)

Accepting == {i \in 1..Len(_parsers) : can_parse(_parsers[i], content)}

\* C9: get_parser scans the variants in registration order and returns the
\* first whose can_parse accepts, also when a later one accepts too; when
\* none accepts it returns None; no variant is tried out of order or twice.
C9_FirstAcceptingInOrder ==
    reg_op = "get_parser" =>
        /\ Accepting = {} =>
              /\ selected = None
              /\ tried = _parsers
        /\ Accepting # {} =>
              LET first == CHOOSE i \in Accepting : \A j \in Accepting : i <= j
              IN  /\ selected = _parsers[first]
                  /\ tried = SubSeq(_parsers, 1, first)
        /\ \A i, j \in 1..Len(tried) : i # j => tried[i] # tried[j]

\* Two registered variants accept the content and the earlier one was returned.
C9_Witness ==
    /\ reg_op = "get_parser"
    /\ Cardinality(Accepting) >= 2
    /\ selected # None
    /\ \E j \in Accepting : _parsers[j] # selected

\* C10: for every content at most one registered variant's can_parse accepts
\* it; a savings detector never accepts what the same bank's credit-card
\* detector accepts.
C10_AtMostOneAccepts ==
    /\ Cardinality({v \in Range(_parsers) : can_parse(v, content)}) <= 1
    /\ ~(can_parse("DBSSavingsParser", content) /\ can_parse("DBSCreditParser", content))
    /\ ~(can_parse("OCBC360Parser", content) /\ can_parse("OCBCCreditParser", content))

NoDuplicates(seq) == \A i, j \in 1..Len(seq) : i # j => seq[i] # seq[j]

\* C11: register is idempotent: the registry never holds a variant twice;
\* a register call leaves the variants registered before it in place and in
\* order, appends the variant at the end when it is new (so the list is in
\* order of first registration), and changes nothing when the variant is
\* already registered.
C11_RegisterIdempotent ==
    /\ []NoDuplicates(_parsers)
    /\ [][reg_op' = "register" =>
            /\ InRegistry(_parsers', registered')
            /\ Len(_parsers') >= Len(_parsers)
            /\ SubSeq(_parsers', 1, Len(_parsers)) = _parsers
            /\ InRegistry(_parsers, registered') => _parsers' = _parsers
            /\ ~InRegistry(_parsers, registered') =>
                  _parsers' = Append(_parsers, registered')]_vars

\* A variant the imports had registered was registered again, and the list
\* is the one the imports left.
C11_Witness ==
    /\ reg_op = "register"
    /\ registered = "OCBC360Parser"
    /\ _parsers = ImportOrder

-----------------------------------------------------------------------------
(* Properties of account naming (specifications SpecMatches, SpecNamer) *)

Separators == {"-", " "}

WithoutSeparators(str) == SelectSeq(str, LAMBDA ch : ch \notin Separators)

\* The last n characters of a string of at least n characters.
LastChars(str, n) == [i \in 1..n |-> str[Len(str) - n + i]]

\* str with the character ch put in after its first k characters.
InsertAt(str, k, ch) == SubSeq(str, 1, k) \o <<ch>> \o SubSeq(str, k + 1, Len(str))

\* C17: matches(candidate) is true exactly when, hyphens and spaces removed
\* from both strings, the candidate equals the identifier, or the candidate
\* has at least 4 characters and its last 4 equal the last 4 of the
\* identifier; a candidate of fewer than 4 characters matches only by
\* equality; and a hyphen or space added to either string never changes the
\* result.
C17_MatchesRule ==
    name_op = "matches" =>
        LET c == WithoutSeparators(identifier)
            m == WithoutSeparators(mappings[1].identifier)
        IN  /\ matched <=> \/ c = m
                           \/ /\ Len(c) >= 4
                              /\ Len(m) >= 4
                              /\ LastChars(c, 4) = LastChars(m, 4)
            /\ Len(c) < 4 => (matched <=> c = m)
            /\ \A k \in 0..Len(identifier), ch \in Separators :
                  matches(mappings[1], InsertAt(identifier, k, ch)) = matched
            /\ \A k \in 0..Len(mappings[1].identifier), ch \in Separators :
                  matches(AccountMapping(InsertAt(mappings[1].identifier, k, ch),
                                         mappings[1].name), identifier) = matched

\* A candidate written with a separator matched an identifier it does not
\* equal, by its last four characters.
C17_Witness ==
    /\ name_op = "matches"
    /\ matched
    /\ identifier # WithoutSeparators(identifier)
    /\ WithoutSeparators(identifier) # WithoutSeparators(mappings[1].identifier)

\* The positions of the mappings that match the identifier.
Matching == {i \in 1..Len(mappings) : matches(mappings[i], identifier)}

\* C16: get_account_name scans the mappings in configured order and returns
\* the name of the first that matches; when several match the earliest wins,
\* and the mappings after it are not consulted.
C16_FirstMatchWins ==
    (name_op = "get_account_name" /\ Matching # {}) =>
        LET first == CHOOSE i \in Matching : \A j \in Matching : i <= j
        IN  /\ name = mappings[first].name
            /\ consulted = first

\* An earlier mapping matched by its last four characters, a later one with
\* another name matched exactly, and the earlier name was returned.
C16_Witness ==
    /\ name_op = "get_account_name"
    /\ \E i, j \in Matching :
          /\ i < j
          /\ mappings[i].name # mappings[j].name
          /\ WithoutSeparators(identifier) = WithoutSeparators(mappings[j].identifier)
          /\ WithoutSeparators(identifier) # WithoutSeparators(mappings[i].identifier)
          /\ name = mappings[i].name
          /\ consulted = i

\* C18: when no mapping matches (the list may be empty), get_account_name
\* returns "Unknown (<last 4>)" of the identifier without hyphens and spaces
\* if at least 4 characters remain, and the identifier unchanged otherwise;
\* the name of a non-empty identifier is never empty.
C18_UnknownFallback ==
    (name_op = "get_account_name" /\ Matching = {}) =>
        LET c == WithoutSeparators(identifier)
        IN  /\ Len(c) >= 4 => name = <<"Unknown (">> \o LastChars(c, 4) \o <<")">>
            /\ Len(c) < 4 => name = identifier
            /\ identifier # <<>> => name # <<>>
            /\ consulted = Len(mappings)

\* An identifier of fewer than four characters besides its separators was
\* matched by none of the configured mappings and came back unchanged.
C18_Witness ==
    /\ name_op = "get_account_name"
    /\ mappings # <<>>
    /\ Matching = {}
    /\ identifier # WithoutSeparators(identifier)
    /\ WithoutSeparators(identifier) # <<>>
    /\ Len(WithoutSeparators(identifier)) < 4
    /\ name = identifier

-----------------------------------------------------------------------------
(* Properties of the parse methods (specification SpecParser) *)

DebitCreditVariants ==
    {"OCBCCreditParser", "OCBC360Parser", "DBSSavingsParser", "DBSCreditParser"}

\* The layout of the exports: fewest columns of a data row, and the
\* zero-based columns of the debit (withdrawal) and credit (deposit) values.
MinCols(v) ==
    CASE v = "OCBCCreditParser" -> 3
      [] v = "OCBC360Parser" -> 5
      [] v = "DBSSavingsParser" -> 8
      [] v = "CitiParser" -> 5
      [] v = "HSBCRevolutionParser" -> 3
      [] OTHER -> 7

DebitColumn(v) ==
    CASE v = "OCBCCreditParser" -> 2
      [] v = "OCBC360Parser" -> 3
      [] v = "DBSSavingsParser" -> 7
      [] OTHER -> 6

CreditColumn(v) == DebitColumn(v) + 1

\* The cell in zero-based column k of a row (empty past its end).
CellAt(row, k) == IF k < Len(row) THEN row[k + 1] ELSE Empty

HoldsValue(cell) == cell.k = "amount"

\* The number a cell holds: its magnitude, negative when written with a
\* minus sign or in parentheses.
ValueOf(cell) ==
    IF cell.paren \/ cell.minus THEN Dec(0 - cell.mag.coef, cell.mag.exp) ELSE cell.mag

Negated(dec) == Dec(0 - dec.coef, dec.exp)

HoldsNonZero(cell) == HoldsValue(cell) /\ cell.mag.coef # 0

MarkedPending(v, row) ==
    \/ /\ v = "DBSCreditParser"
       /\ CellAt(row, 5).t \in {<<"Pending">>, <<"PENDING">>, <<"pending">>}
    \/ /\ v = "UOBCreditParser"
       /\ CellAt(row, 1).t \in {<<"Pending">>, <<"PENDING">>, <<"pending">>}

\* A row with the columns of a data row, a date in its first column and no
\* pending mark.
IsDataRow(v, row) ==
    /\ Len(row) >= MinCols(v)
    /\ row[1].k = "date"
    /\ ~MarkedPending(v, row)

\* The transactions that came from a row.
FromRow(row) == {t \in Range(transactions) : t.raw_data = row}

LastNonEmpty(row) ==
    LET filled == {i \in 1..Len(row) : row[i].k # "empty"}
    IN  IF filled = {} THEN 0 ELSE CHOOSE i \in filled : \A j \in filled : j <= i

\* C13: in the single signed column variants the amount of every emitted
\* transaction is the negation of the raw value for UOB and the raw value
\* for HSBC (last column) and Citi (third column); UOB takes the raw value
\* from the last non-empty column of the row.
C13_SignedColumn ==
    parse_op = "parse" =>
        \A t \in Range(transactions) :
            /\ instance.variant = "UOBCreditParser" =>
                  /\ LastNonEmpty(t.raw_data) > 0
                  /\ HoldsValue(t.raw_data[LastNonEmpty(t.raw_data)])
                  /\ t.amount = Negated(ValueOf(t.raw_data[LastNonEmpty(t.raw_data)]))
            /\ instance.variant = "HSBCRevolutionParser" =>
                  /\ HoldsValue(t.raw_data[Len(t.raw_data)])
                  /\ t.amount = ValueOf(t.raw_data[Len(t.raw_data)])
            /\ instance.variant = "CitiParser" =>
                  /\ HoldsValue(CellAt(t.raw_data, 2))
                  /\ t.amount = ValueOf(CellAt(t.raw_data, 2))

\* UOB emitted a payment (negative in the file, positive stored) and a
\* purchase whose amount stood in the column before an empty last column.
C13_Witness ==
    /\ parse_op = "parse" /\ instance.variant = "UOBCreditParser"
    /\ \E t, u \in Range(transactions) :
          /\ t.raw_data[Len(t.raw_data)].minus
          /\ t.amount.coef > 0
          /\ u.raw_data[Len(u.raw_data)].k = "empty"
          /\ u.amount.coef < 0

\* C14: when a parser of any variant is constructed with an override account
\* name, every transaction it emits carries exactly that name.
C14_OverrideOnEveryTransaction ==
    (parse_op = "parse" /\ instance._account_name # <<>>) =>
        \A t \in Range(transactions) : t.account = instance._account_name

PendingMarked(rows, v) == {i \in 1..Len(rows) : MarkedPending(v, rows[i])}

MentionsPreviousBalance(row) ==
    \E i \in 1..Len(row) : "Previous Balance" \in Range(row[i].t)

\* The pending-marked rows that reach the pending test: they have the seven
\* columns of a data row and, for UOB, no cell with "Previous Balance".
PendingTested(rows, v) ==
    {i \in PendingMarked(rows, v) :
        /\ Len(rows[i]) >= 7
        /\ v = "UOBCreditParser" => ~MentionsPreviousBalance(rows[i])}

\* C15 as stated: for DBS credit and UOB no emitted transaction comes from a
\* row marked pending, and pending_skipped is the number of pending-marked
\* rows after the column header.
C15_EveryPendingCounted ==
    (parse_op = "parse" /\ instance.variant \in PendingVariants) =>
        /\ \A t \in Range(transactions) : ~MarkedPending(instance.variant, t.raw_data)
        /\ pending_skipped = Cardinality(PendingMarked(document.rows, instance.variant))

\* C15 amended: no emitted transaction comes from a row marked pending, and
\* pending_skipped is the number of pending-marked rows after the column
\* header that have at least seven columns and, for UOB, no cell containing
\* "Previous Balance"; the other pending-marked rows are skipped uncounted.
C15_TestedPendingCounted ==
    (parse_op = "parse" /\ instance.variant \in PendingVariants) =>
        /\ \A t \in Range(transactions) : ~MarkedPending(instance.variant, t.raw_data)
        /\ pending_skipped = Cardinality(PendingTested(document.rows, instance.variant))
        /\ \A i \in PendingMarked(document.rows, instance.variant) :
              FromRow(document.rows[i]) = {}

\* A parse that skipped two pending rows, or one next to an emitted row.
C15_Witness ==
    /\ parse_op = "parse" /\ instance.variant \in PendingVariants
    /\ pending_skipped >= 1
    /\ \/ pending_skipped = 2
       \/ transactions # <<>>

\* C19: the account of every emitted transaction is a resolved label and
\* never a raw card or account number: the override name, a configured
\* mapping name, a masked "Unknown (last 4)" label, or a label hardcoded by
\* the variant.
HardcodedLabels ==
    {<<"UOB Lady's Solitaire">>, <<"UOB Platinum VISA">>, <<"UOB Card">>,
     <<"HSBC Revolution">>}

MaskedLabel(acct) ==
    /\ Len(acct) = SuffixLen + 2
    /\ acct[1] = "Unknown ("
    /\ acct[Len(acct)] = ")"

MappingNames(config) == {config.accounts[i].name : i \in 1..Len(config.accounts)}

C19_AccountIsLabel ==
    parse_op = "parse" =>
        \A t \in Range(transactions) :
            \/ instance._account_name # <<>> /\ t.account = instance._account_name
            \/ t.account \in MappingNames(instance._config)
            \/ MaskedLabel(t.account)
            \/ t.account \in HardcodedLabels

\* C19 amended: the account of every emitted transaction is the override
\* name, a configured mapping name, a masked "Unknown (last 4)" label, a
\* label hardcoded by the variant, or, for UOB, the account number of the
\* header itself when it has fewer than four characters and matches no
\* mapping.
C19_AccountIsLabelOrShortNumber ==
    parse_op = "parse" =>
        \A t \in Range(transactions) :
            \/ instance._account_name # <<>> /\ t.account = instance._account_name
            \/ t.account \in MappingNames(instance._config)
            \/ MaskedLabel(t.account)
            \/ t.account \in HardcodedLabels
            \/ /\ instance.variant = "UOBCreditParser"
               /\ t.account = document.header_id
               /\ Len(WithoutSeparators(document.header_id)) < SuffixLen
               /\ \A i \in 1..Len(instance._config.accounts) :
                     WithoutSeparators(instance._config.accounts[i].card_number)
                         # WithoutSeparators(document.header_id)

\* A UOB parse with mappings configured emitted a transaction under the
\* short account number of its header.
C19_Witness ==
    /\ parse_op = "parse" /\ instance.variant = "UOBCreditParser"
    /\ instance._config.loaded /\ instance._config.accounts # <<>>
    /\ \E t \in Range(transactions) :
          /\ t.account = document.header_id
          /\ Len(document.header_id) < SuffixLen

\* C20 as stated: all transactions returned by one parse call carry the same
\* account.
C20_OneAccountPerParse ==
    parse_op = "parse" =>
        \A t, u \in Range(transactions) : t.account = u.account

\* The name the account namer gives an identifier for a parser: the override,
\* else the name of the first configured mapping that matches, else the
\* fallback label.
ResolvedName(self, id) ==
    LET maps == get_account_mappings(self._config)
        hits == {i \in 1..Len(maps) : matches(maps[i], id)}
    IN  IF self._account_name # <<>> THEN self._account_name
        ELSE IF hits # {} THEN maps[CHOOSE i \in hits : \A j \in hits : i <= j].name
        ELSE IF Len(WithoutSeparators(id)) >= SuffixLen
             THEN <<"Unknown (">> \o LastChars(WithoutSeparators(id), SuffixLen) \o <<")">>
        ELSE id

\* The card number in the fifth column of a Citi row.
CardOf(row) == IF CellAt(row, 4).k = "card" THEN CellAt(row, 4).t ELSE CitiDefaultId

\* C20 amended: all transactions returned by one parse call of a variant
\* other than Citi carry the same account; Citi resolves the card number of
\* each row, so each of its transactions carries the name resolved for the
\* card number of its own row, and rows with the same card number share it.
C20_OneAccountPerCard ==
    parse_op = "parse" =>
        IF instance.variant = "CitiParser"
        THEN \A t \in Range(transactions) :
                 t.account = ResolvedName(instance, CardOf(t.raw_data))
        ELSE \A t, u \in Range(transactions) : t.account = u.account

\* A Citi parse emitted rows of two cards under two accounts.
C20_Witness ==
    /\ parse_op = "parse" /\ instance.variant = "CitiParser"
    /\ \E t, u \in Range(transactions) :
          /\ CardOf(t.raw_data) # CardOf(u.raw_data)
          /\ t.account # u.account

\* The zero-based column of the description.
DescColumn(v) ==
    IF v \in {"OCBCCreditParser", "HSBCRevolutionParser", "CitiParser"} THEN 1 ELSE 2

\* C21: every transaction has a description with at least one non-blank
\* character; an empty or blank description is replaced by the placeholder
\* "(No description)" when the transaction is constructed.
C21_DescriptionNeverEmpty ==
    parse_op = "parse" =>
        \A t \in Range(transactions) :
            /\ t.description # <<>>
            /\ \A i \in 1..Len(t.description) : t.description[i] \notin {"", " "}
            /\ CellAt(t.raw_data, DescColumn(instance.variant)).t = <<>> =>
                  t.description = <<"(No description)">>

\* A row with an empty description column, and a row whose description was
\* only a card mask, were emitted under the placeholder.
C21_Witness ==
    /\ parse_op = "parse"
    /\ \E t \in Range(transactions) :
          /\ t.description = <<"(No description)">>
          /\ \/ CellAt(t.raw_data, DescColumn(instance.variant)).t = <<>>
             \/ CellAt(t.raw_data, DescColumn(instance.variant)).t = <<"XXXX-XXXX-XXXX-1234">>

-----------------------------------------------------------------------------
(* Properties of the parsing utilities (specification SpecUtils) *)

\* C22: clean_description is idempotent: cleaning what it returned gives
\* the same string.
C22_CleanIdempotent ==
    Len(cleaned) = 2 => cleaned[2] = cleaned[1]

\* The sign a number has in the text, and the sign of a parsed value.
SignOf(n) == IF n > 0 THEN 1 ELSE IF n < 0 THEN -1 ELSE 0

-----------------------------------------------------------------------------
(* Further properties of the normalizer (specification Spec) *)

\* The files of a list that were read and accepted by a variant.
Recognised(path) == Fate(path) \in {"ok", "parse_error"}

\* The transactions of the well-formed rows of a file, in row order.
WellFormedOf(path) ==
    [i \in 1..Len(RowsOfKind(path, "tx")) |-> RowsOfKind(path, "tx")[i].tx]

\* C26: a malformed data row (too few columns, unparseable date, missing or
\* unparseable amount) produces no transaction, does not raise, adds no
\* entry to the normalizer's errors, and does not keep a later well-formed
\* row of its file from being emitted.
C26_MalformedRowsSkippedSilently ==
    Returned("process_files") =>
        \A i \in 1..Len(files) :
            Recognised(files[i]) =>
                /\ \A k \in 1..Len(_errors) : _errors[k][1] # files[i]
                /\ \A t \in Range(WellFormedOf(files[i])) : t \in Range(all_transactions)

\* The subsequence of all_transactions at the positions of FirstSeen.
FirstSeenInOrder ==
    SelectSeq([k \in 1..Len(all_transactions) |-> <<k, all_transactions[k]>>],
              LAMBDA p : p[1] \in FirstSeen)

\* C27: with sort_descending=False process_files returns the transactions in
\* the order the files were supplied and, within a file, in the row order of
\* the parser; deduplication only removes later duplicates and never
\* reorders the survivors.
C27_UnsortedKeepsInputOrder ==
    (Returned("process_files") /\ ~sort_descending) =>
        /\ all_transactions =
              Concat([i \in 1..Len(files) |->
                        IF Fate(files[i]) = "ok" THEN WellFormedOf(files[i]) ELSE <<>>])
        /\ ~deduplicate => result = all_transactions
        /\ deduplicate =>
              result = [k \in 1..Len(FirstSeenInOrder) |-> FirstSeenInOrder[k][2]]

\* Two files were returned unsorted, a later date after an earlier one, with
\* a duplicate of the first file dropped from the second.
C27_Witness ==
    /\ Returned("process_files") /\ ~sort_descending /\ deduplicate
    /\ Len(files) >= 2 /\ files[1] # files[2]
    /\ Len(result) < Len(all_transactions)
    /\ \E i \in 1..(Len(result) - 1) : result[i].date < result[i + 1].date

\* C28: a direct call of process_file never resets or removes accumulated
\* state: it appends at most one error and adds a non-negative pending
\* count, so errors and pending_skipped grow monotonically over process_file
\* calls, also after a process_files run; and process_file neither
\* deduplicates nor sorts what it returns.
C28_ProcessFileOnlyAppends ==
    op = "process_file" =>
        /\ Len(_errors) \in {Len(entry.errors), Len(entry.errors) + 1}
        /\ SubSeq(_errors, 1, Len(entry.errors)) = entry.errors
        /\ _pending_skipped >= entry.pending
        /\ Len(_errors) > Len(entry.errors) => _errors[Len(_errors)][1] = files[1]
        /\ outcome = "returned" =>
              result = IF Fate(files[1]) = "ok" THEN WellFormedOf(files[1]) ELSE <<>>

\* A process_file call on a normalizer that already held an error and a
\* pending count added an error of its own; another returned a file's rows
\* with a duplicate and out of date order.
C28_Witness ==
    /\ op = "process_file"
    /\ \/ /\ entry.errors # <<>> /\ entry.pending > 0
          /\ Len(_errors) = Len(entry.errors) + 1
       \/ /\ entry.errors # <<>>
          /\ \E i, j \in 1..Len(result) :
                i < j /\ RuleKey(result[i]) = RuleKey(result[j])
          /\ \E i \in 1..(Len(result) - 1) : result[i].date < result[i + 1].date

\* The single signed column variants.
SignedVariants == {"UOBCreditParser", "HSBCRevolutionParser", "CitiParser"}

\* The column a signed variant reads the amount from.
SignedCell(v, row) ==
    CASE v = "UOBCreditParser" -> IF LastNonEmpty(row) = 0 THEN Empty ELSE row[LastNonEmpty(row)]
      [] v = "HSBCRevolutionParser" -> row[Len(row)]
      [] OTHER -> CellAt(row, 2)

\* The number of transactions that came from a row.
CountFromRow(row) == Cardinality({k \in 1..Len(transactions) : transactions[k].raw_data = row})

\* The number of times a row stands in the document.
CountInDocument(row) == Cardinality({k \in 1..Len(document.rows) : document.rows[k] = row})

\* C29: in the debit and credit column variants a data row emits at most one
\* transaction; when both columns hold a non-zero value the debit value is
\* used and the credit value ignored; when both are empty or zero none is
\* emitted, so these variants never emit a zero amount; the single signed
\* column variants emit a transaction for a row whose amount parses to
\* zero.
C29_OnePerRowDebitFirst ==
    parse_op = "parse" =>
        /\ instance.variant \in DebitCreditVariants =>
              /\ \A i \in 1..Len(document.rows) :
                    LET row == document.rows[i]
                        debit == CellAt(row, DebitColumn(instance.variant))
                        credit == CellAt(row, CreditColumn(instance.variant))
                    IN  /\ CountFromRow(row) <= CountInDocument(row)
                        /\ (IsDataRow(instance.variant, row)
                               /\ HoldsNonZero(debit) /\ HoldsNonZero(credit)) =>
                              /\ CountFromRow(row) = CountInDocument(row)
                              /\ \A t \in FromRow(row) : t.amount = Negated(ValueOf(debit))
                        /\ (~HoldsNonZero(debit) /\ ~HoldsNonZero(credit)) =>
                              FromRow(row) = {}
              /\ \A t \in Range(transactions) : t.amount.coef # 0
        /\ instance.variant \in SignedVariants =>
              \A i \in 1..Len(document.rows) :
                  LET row == document.rows[i]
                  IN  (IsDataRow(instance.variant, row)
                         /\ ~(instance.variant = "UOBCreditParser" /\ HasPreviousBalance(row))
                         /\ HoldsValue(SignedCell(instance.variant, row))
                         /\ SignedCell(instance.variant, row).mag.coef = 0) =>
                        \E t \in FromRow(row) : t.amount.coef = 0

\* A row with 5.00 in the debit and 6.00 in the credit column came out as
\* one transaction of -5.00.
C29_Witness ==
    /\ parse_op = "parse" /\ instance.variant \in DebitCreditVariants
    /\ \E i \in 1..Len(document.rows) :
          LET row == document.rows[i]
          IN  /\ HoldsNonZero(CellAt(row, DebitColumn(instance.variant)))
              /\ HoldsNonZero(CellAt(row, CreditColumn(instance.variant)))
              /\ CountFromRow(row) = 1
              /\ \A t \in FromRow(row) : t.amount = Dec(-500, -2)
    /\ \E i \in 1..Len(document.rows) :
          LET row == document.rows[i]
          IN  /\ IsDataRow(instance.variant, row)
              /\ HoldsValue(CellAt(row, DebitColumn(instance.variant)))
              /\ ~HoldsNonZero(CellAt(row, DebitColumn(instance.variant)))
              /\ ~HoldsNonZero(CellAt(row, CreditColumn(instance.variant)))
              /\ FromRow(row) = {}

-----------------------------------------------------------------------------
(* Properties of the Lunch Money client (specification SpecUpload) *)

\* The transactions of the argument whose account has an asset id, in order.
MappedTxs ==
    SelectSeq(upload_input.transactions,
              LAMBDA tx : tx.account \in DOMAIN upload_input.account_mapping)

\* The payloads of all requests, in the order sent.
Sent == Concat(posted)

WithoutReference(tx) == tx.reference.none \/ tx.reference.text = <<>>

\* The length of an external id: of its text, or of the digest kept.
ExternalIdLen(id) == IF id.sha256 = <<>> THEN Len(id.text) ELSE id.len

\* C24: generate_external_id returns the first 75 characters of a non-empty
\* reference, otherwise a value that depends only on date, amount,
\* description and account; the result never exceeds 75 characters; two
\* transactions without reference that agree on those four fields get the
\* same id whatever their raw_data, category or currency.
C24_ExternalIdDeterministicBounded ==
    upload_op = "returned" =>
        LET mapped == MappedTxs
        IN  /\ Len(payloads) = Len(mapped)
            /\ \A k \in 1..Len(payloads) :
                  LET tx == mapped[k]
                      id == payloads[k].external_id
                  IN  /\ ExternalIdLen(id) <= 75
                      /\ ~WithoutReference(tx) =>
                            /\ id.sha256 = <<>>
                            /\ Len(id.text) = Min(75, Len(tx.reference.text))
                            /\ \A j \in 1..Len(id.text) : id.text[j] = tx.reference.text[j]
                      /\ WithoutReference(tx) => id.sha256 # <<>>
            /\ \A k \in 1..Min(Len(payloads), 12) : \A j \in 1..Min(Len(payloads), 12) :
                  (/\ WithoutReference(mapped[k]) /\ WithoutReference(mapped[j])
                   /\ mapped[k].date = mapped[j].date
                   /\ mapped[k].amount = mapped[j].amount
                   /\ mapped[k].description = mapped[j].description
                   /\ mapped[k].account = mapped[j].account) =>
                      payloads[k].external_id = payloads[j].external_id

\* Two transactions that differ in currency, category and raw_data got the
\* same id, and a reference of 80 characters was cut to 75.
C24_Witness ==
    /\ upload_op = "returned"
    /\ \E k, j \in 1..Min(Len(payloads), 12) :
          /\ WithoutReference(MappedTxs[k]) /\ WithoutReference(MappedTxs[j])
          /\ MappedTxs[k].raw_data # MappedTxs[j].raw_data
          /\ MappedTxs[k].category # MappedTxs[j].category
          /\ MappedTxs[k].original_currency # MappedTxs[j].original_currency
          /\ payloads[k].external_id = payloads[j].external_id
    /\ \E k \in 1..Min(Len(payloads), 12) :
          /\ Len(MappedTxs[k].reference.text) > 75
          /\ Len(payloads[k].external_id.text) = 75

\* The batches whose request raised.
FailedBatches == {b \in 1..Len(responses) : responses[b].raised # ""}

\* The duplicates the server reported for the batches it accepted.
ReportedDuplicates ==
    Sum([b \in 1..Len(responses) |->
            IF b \in FailedBatches THEN 0 ELSE Len(posted[b]) - responses[b].ids])

\* C25: upload_transactions sends only the transactions whose account has an
\* asset id in the mapping, in input order, in consecutive batches of at
\* most 500 payloads, each mapped transaction in exactly one batch and one
\* request per batch (ceil(n/500) requests for n mapped transactions); a
\* transaction with an unmapped account is never sent and counts exactly
\* once toward skipped.
C25_MappedSentInBatches ==
    upload_op = "returned" =>
        LET mapped == MappedTxs
            sent == Sent
            n == Len(mapped)
        IN  /\ Len(sent) = n
            /\ \A k \in 1..n :
                  /\ sent[k].date = isoformat(mapped[k].date)
                  /\ sent[k].payee = mapped[k].description
                  /\ sent[k].asset_id = upload_input.account_mapping[mapped[k].account]
            /\ \A b \in 1..Len(posted) : Len(posted[b]) \in 1..500
            /\ Len(posted) * 500 >= n
            /\ Len(posted) > 0 => (Len(posted) - 1) * 500 < n
            /\ upload_result.skipped - ReportedDuplicates
                   = Len(upload_input.transactions) - n

\* 1001 transactions, some of them unmapped, went out in two batches, the
\* first of 500.
C25_Witness ==
    /\ upload_op = "returned"
    /\ Len(upload_input.transactions) = 1001
    /\ Len(MappedTxs) \in 501..1000
    /\ Len(posted) = 2
    /\ Len(posted[1]) = 500
    /\ upload_result.skipped >= 1001 - Len(MappedTxs)

\* The payloads of the batches whose request raised.
FailedPayloads ==
    Sum([b \in 1..Len(responses) |-> IF b \in FailedBatches THEN Len(posted[b]) ELSE 0])

\* The failed batches in ascending order.
FailedInOrder ==
    SelectSeq([b \in 1..Len(responses) |-> b], LAMBDA b : b \in FailedBatches)

====
